---- MODULE Spec2Model ----
(***************************************************************************)
(* A model of tiledb::sm::ThreadPool (tiledb/sm/misc/thread_pool.cc): the  *)
(* task stack, the workers, the registry tp_index_ and the re-entrant      *)
(* wait_or_work, run by an application thread and the pools' workers.      *)
(*                                                                         *)
(* Every thread has a call stack of frames.  One action is a step of the   *)
(* thread's top frame with at most one critical section or one access to   *)
(* shared state in it.  SpecLocks runs the same code with the mutexes as    *)
(* state, taken and released in steps of their own.                        *)
(*                                                                         *)
(* SpecMd is a model of tiledb::sm::MetadataCompute                        *)
(* (tiledb/sm/tile/metadata_compute.cc): compute_md on the tiles drawn in  *)
(* its initial states.                                                     *)
(***************************************************************************)
EXTENDS Integers, Sequences, FiniteSets, TLC

\* ------------------------------------------------------------------ bounds
\* The largest concurrency level a client passes to init.
MaxConc == 3
\* The longest client program (number of API calls of the application thread).
MaxCalls == 3
\* The most children of a closure that submits closures.
MaxKids == 1
\* The most waits of a client that has submitted such a closure.
MaxWaits == 1
\* The most cells of a tile.
MaxCells == 3
\* The largest value of a cell of a fixed-size tile and of a byte of
\* var-size data.
MaxByte == 2
\* The most bytes of the var-size data of a tile.
MaxVarSize == 3

\* The largest concurrency level of the second pool of a client of two pools.
MaxConcTwo == 2

\* ------------------------------------------------------------------ values
Pools == {"A", "B"}

\* The application thread; workers get the ids 1, 2, ... in spawn order.
Main == 0

\* Status values: Ok, the error a wait synthesizes for an invalid future, and
\* "no value" (the result of a future that is not ready).  The error of the
\* closure of task h is the number h > 0 (every closure has its own message).
Ok == 0
InvalidFuture == -1
NoStatus == -2
\* The two errors of init: concurrency level 0, and a failed spawn.
ZeroLevelError == -3
SpawnError == -4

\* A default-constructed Task<Status>: valid() is false.
NoHandle == 0

\* A mutex that no frame holds.  The owner of a held mutex is <<t, d>>: the
\* frame at depth d of the call stack of thread t.
NoOwner == <<>>

\* A pointer into a buffer is the buffer and an offset in cells (into the
\* buffer of a fixed-size tile) or in bytes (into var-size data).
nullptr == [buf |-> "null", off |-> 0]
Ptr(b, o) == [buf |-> b, off |-> o]

\* The value of a field that no constructor has written.
Indeterminate == "indeterminate"

VARIABLES
    concurrency_level_,  \* [Pools -> Nat]
    should_terminate_,   \* [Pools -> BOOLEAN]
    task_stack_,         \* [Pools -> Seq(handle)], top of the stack last
    threads_,            \* [Pools -> Seq(thread id)]
    tp_index_,           \* the registry: a function thread id -> pool
    tasks,               \* the packaged tasks / futures ever created, by handle
    stk,                 \* the call stack of every thread, top frame last
    prog,                \* the client program: what the application thread may still call
    last,                \* the init, wait or terminate that returned last
    terminated,          \* per pool: whether terminate has returned ("yes"),
                         \* and init was called after that ("reinit")
    task_stack_mutex_,   \* [Pools -> owner]: the frame that holds the mutex
    tp_index_lock_,      \* the frame that holds the mutex of the registry
    tile,                \* the buffer of the tile given to compute_md
    tile_var,            \* the buffer of its var-size data, or nullptr
    tile_val,            \* the buffer of its validity bytes, or nullptr
    past,                \* the byte the memory after a buffer holds
    min_, min_size_,     \* the fields of the MetadataCompute
    max_, max_size_,
    sum_,
    non_null_count_,
    overrun              \* whether compute_md has read outside a buffer

\* The mutexes of the pools: held only inside the steps of the actions but
\* in SpecLocks, which takes and releases them in steps of their own.
mutexes == <<task_stack_mutex_, tp_index_lock_>>

\* A MetadataCompute and the tiles it is given.
md == <<tile, tile_var, tile_val, past, min_, min_size_, max_, max_size_,
        sum_, non_null_count_, overrun>>

vars == <<concurrency_level_, should_terminate_, task_stack_, threads_,
          tp_index_, tasks, stk, prog, last, terminated, mutexes, md>>

\* ----------------------------------------------------------------- helpers
Top(s) == s[Len(s)]
Pop(s) == SubSeq(s, 1, Len(s) - 1)
SetTop(s, f) == [s EXCEPT ![Len(s)] = f]

Threads == DOMAIN stk
Active(t) == t \in Threads /\ stk[t] # <<>>
TopIs(t, fn) == Active(t) /\ Top(stk[t]).fn = fn

Handles == 1..Len(tasks)

\* Task<Status>::valid()
valid(h) == h # NoHandle

\* Task<Status>::done()
done(h) == tasks[h].state = "Completed"

\* Closures.  A leaf returns Ok or its own error; a parent submits one leaf
\* per element of kids to pool q, waits on them with q.wait_all and returns
\* what wait_all returned.
Leaf(ok) == [kind |-> "leaf", ok |-> ok, q |-> "A", kids |-> <<>>]
Parent(q, kids) == [kind |-> "parent", ok |-> TRUE, q |-> q, kids |-> kids]

\* The frames.
MainFrame == [fn |-> "main", hs |-> <<>>, val |-> NoStatus]
TaskFrame(h) == [fn |-> "task", h |-> h, hs |-> <<>>, val |-> NoStatus, pc |-> "run"]
ExecFrame(h) == [fn |-> "execute", h |-> h]
WorkerFrame(P) == [fn |-> "worker", pool |-> P, pc |-> "lock"]
WaitFrame(P, hs) ==
    [fn |-> "wait", pool |-> P, hs |-> hs, i |-> 1, sts |-> <<>>,
     pc |-> "next", tp |-> P, ooo |-> FALSE]
TerminateFrame(P) == [fn |-> "terminate", pool |-> P, pc |-> "flag", j |-> 1]
InitFrame(P, n, failAt) ==
    [fn |-> "init", pool |-> P, n |-> n, i |-> 0, failAt |-> failAt, pc |-> "spawn"]

NoCall == [op |-> "none", t |-> Main, pool |-> "A", hs |-> <<>>,
           sts |-> <<>>, ret |-> NoStatus, ooo |-> FALSE]

\* The frame a callee returns into takes a handle (from execute) ...
GiveHandle(f, h) == [f EXCEPT !.hs = Append(@, h)]
\* ... or a status (from wait_all).
GiveStatus(f, st) == [f EXCEPT !.val = st]


\* ------------------------------------------------------ packaged tasks
\* A new PackagedTask with its future (execute, lines 109-110).  runs is the
\* list of the threads that called the task, ret what its closure returned.
NewTask(P, c) ==
    [pool |-> P, body |-> c, state |-> "Pending", result |-> NoStatus,
     ret |-> NoStatus, runs |-> <<>>]

\* The thread that moved the task out of a stack, or created it with
\* concurrency level 1, is the one that calls it.
Started(tk, t) == [tk EXCEPT !.state = "Running", !.runs = Append(@, t)]

\* PackagedTask::operator(): the closure's status becomes the future's result
\* and the future becomes ready.
Completed(tk, st) == [tk EXCEPT !.state = "Completed", !.result = st, !.ret = st]

\* What the closure of task h returns when it is a leaf.
LeafStatus(h) == IF tasks[h].body.ok THEN Ok ELSE h

\* ------------------------------------------------------------ the stack
\* (A push that puts the task on the stack twice.)
push_twice(s, h) == Append(Append(s, h), h)

\* std::stack::push, top and pop on a sequence whose last element is the top.
push(s, h) == Append(s, h)
\* (A top that gives the oldest task of the stack.)
top_oldest(s) == s[1]
top(s) == s[Len(s)]
\* (A pop that leaves the task on the stack.)
pop_forgotten(s) == s
pop(s) == SubSeq(s, 1, Len(s) - 1)

\* The workers of P blocked in task_stack_cv_.wait (worker, line 219).
Sleepers(P) ==
    {w \in Threads : /\ TopIs(w, "worker")
                     /\ Top(stk[w]).pool = P
                     /\ Top(stk[w]).pc = "sleep"}

\* A woken worker goes for the mutex to test the predicate again.
Woken(s) == SetTop(s, [Top(s) EXCEPT !.pc = "lock"])

\* (A notify_one that wakes no worker.)
notify_lost(P, st) == {st}

\* task_stack_cv_.notify_one(): one of the blocked workers, if there is one.
notify_one(P, st) ==
    IF Sleepers(P) = {} THEN {st}
    ELSE {[st EXCEPT ![w] = Woken(@)] : w \in Sleepers(P)}

\* task_stack_cv_.notify_all()
notify_all(P, st) ==
    [w \in DOMAIN st |-> IF w \in Sleepers(P) THEN Woken(st[w]) ELSE st[w]]

\* -------------------------------------------------- ThreadPool::execute
\* (An execute without the test of line 103.)
AcceptsTerminated(P) == concurrency_level_[P] # 0

\* (An execute without the test of line 95.)
AcceptsUninitialized(P) == ~should_terminate_[P]

\* The two tests of lines 95 and 103.  concurrency_level_ never goes back to
\* 0, so reading it before taking the mutex or with the mutex held is the same.
Accepts(P) == concurrency_level_[P] # 0 /\ ~should_terminate_[P]

\* (An execute that pushes the task at every level, 1 too.)
execute_pushes(t, P, c) ==
    LET h == Len(tasks) + 1 IN
    \/ /\ ~Accepts(P)
       /\ stk' = [stk EXCEPT ![t] = SetTop(@, GiveHandle(Top(@), NoHandle))]
       /\ UNCHANGED <<tasks, task_stack_>>
    \/ /\ Accepts(P)
       /\ tasks' = Append(tasks, NewTask(P, c))
       /\ task_stack_' = [task_stack_ EXCEPT ![P] = push(@, h)]
       /\ stk' \in notify_one(P,
                     [stk EXCEPT ![t] = SetTop(@, GiveHandle(Top(@), h))])

\* (An execute without the test of should_terminate_ of lines 103-107.)
execute_untested(t, P, c) ==
    LET h == Len(tasks) + 1 IN
    \/ /\ concurrency_level_[P] = 0
       /\ stk' = [stk EXCEPT ![t] = SetTop(@, GiveHandle(Top(@), NoHandle))]
       /\ UNCHANGED <<tasks, task_stack_>>
    \/ /\ concurrency_level_[P] > 1
       /\ tasks' = Append(tasks, NewTask(P, c))
       /\ task_stack_' = [task_stack_ EXCEPT ![P] = push(@, h)]
       /\ stk' \in notify_one(P,
                     [stk EXCEPT ![t] = SetTop(@, GiveHandle(Top(@), h))])
    \/ /\ concurrency_level_[P] = 1
       /\ tasks' = Append(tasks, Started(NewTask(P, c), t))
       /\ stk' = [stk EXCEPT ![t] = @ \o <<ExecFrame(h), TaskFrame(h)>>]
       /\ UNCHANGED task_stack_

\* Thread t, whose top frame is a caller, calls P.execute(c).
execute(t, P, c) ==
    LET h == Len(tasks) + 1 IN
    \/ /\ ~Accepts(P)
       /\ stk' = [stk EXCEPT ![t] = SetTop(@, GiveHandle(Top(@), NoHandle))]
       /\ UNCHANGED <<tasks, task_stack_>>
    \/ /\ Accepts(P)
       /\ concurrency_level_[P] > 1
       /\ tasks' = Append(tasks, NewTask(P, c))
       /\ task_stack_' = [task_stack_ EXCEPT ![P] = push(@, h)]
       /\ stk' \in notify_one(P,
                     [stk EXCEPT ![t] = SetTop(@, GiveHandle(Top(@), h))])
    \/ /\ Accepts(P)
       /\ ~(concurrency_level_[P] > 1)      \* the else of line 121
       /\ tasks' = Append(tasks, Started(NewTask(P, c), t))
       /\ stk' = [stk EXCEPT ![t] = @ \o <<ExecFrame(h), TaskFrame(h)>>]
       /\ UNCHANGED task_stack_

\* Lines 126-127, after task() of line 123 has returned.
execute_return(t) ==
    /\ TopIs(t, "execute")
    /\ LET h == Top(stk[t]).h
           s == Pop(stk[t])
       IN stk' = [stk EXCEPT ![t] = SetTop(s, GiveHandle(Top(s), h))]
    /\ UNCHANGED <<concurrency_level_, should_terminate_, task_stack_,
                   threads_, tp_index_, tasks, prog, last, terminated>>
    /\ UNCHANGED <<mutexes, md>>

\* ------------------------------------------------------------- closures
\* (A failing closure that takes the frame of its agent with it.)
run_leaf_unwinds(t) ==
    /\ TopIs(t, "task")
    /\ LET f == Top(stk[t]) IN
         /\ f.pc = "run"
         /\ tasks[f.h].body.kind = "leaf"
         /\ tasks' = [tasks EXCEPT ![f.h] = Completed(@, LeafStatus(f.h))]
         /\ stk' = [stk EXCEPT ![t] =
                       IF tasks[f.h].body.ok THEN Pop(@) ELSE Pop(Pop(@))]
    /\ UNCHANGED <<concurrency_level_, should_terminate_, task_stack_,
                   threads_, tp_index_, prog, last, terminated>>
    /\ UNCHANGED <<mutexes, md>>

\* A leaf closure runs and returns; one that fails returns its error, or
\* raises it and PackagedTask::operator() makes it the task's result.
run_leaf(t) ==
    /\ TopIs(t, "task")
    /\ LET f == Top(stk[t]) IN
         /\ f.pc = "run"
         /\ tasks[f.h].body.kind = "leaf"
         /\ tasks' = [tasks EXCEPT ![f.h] = Completed(@, LeafStatus(f.h))]
         /\ stk' = [stk EXCEPT ![t] = Pop(@)]
    /\ UNCHANGED <<concurrency_level_, should_terminate_, task_stack_,
                   threads_, tp_index_, prog, last, terminated>>
    /\ UNCHANGED <<mutexes, md>>

\* A parent closure submits its next child.
parent_submit(t) ==
    /\ TopIs(t, "task")
    /\ LET f == Top(stk[t])
           b == tasks[f.h].body
       IN /\ f.pc = "run"
          /\ b.kind = "parent"
          /\ Len(f.hs) < Len(b.kids)
          /\ execute(t, b.q, Leaf(b.kids[Len(f.hs) + 1]))
    /\ UNCHANGED <<concurrency_level_, should_terminate_, threads_,
                   tp_index_, prog, last, terminated>>
    /\ UNCHANGED <<mutexes, md>>

\* A parent closure has submitted all its children and calls wait_all.
parent_wait(t) ==
    /\ TopIs(t, "task")
    /\ LET f == Top(stk[t])
           b == tasks[f.h].body
       IN /\ f.pc = "run"
          /\ b.kind = "parent"
          /\ Len(f.hs) = Len(b.kids)
          /\ stk' = [stk EXCEPT ![t] =
                        Append(SetTop(@, [f EXCEPT !.pc = "ret"]),
                               WaitFrame(b.q, f.hs))]
    /\ UNCHANGED <<concurrency_level_, should_terminate_, task_stack_,
                   threads_, tp_index_, tasks, prog, last, terminated>>
    /\ UNCHANGED <<mutexes, md>>

\* A parent closure returns the status wait_all gave it.
parent_return(t) ==
    /\ TopIs(t, "task")
    /\ LET f == Top(stk[t]) IN
         /\ f.pc = "ret"
         /\ tasks' = [tasks EXCEPT ![f.h] = Completed(@, f.val)]
         /\ stk' = [stk EXCEPT ![t] = Pop(@)]
    /\ UNCHANGED <<concurrency_level_, should_terminate_, task_stack_,
                   threads_, tp_index_, prog, last, terminated>>
    /\ UNCHANGED <<mutexes, md>>

\* --------------------------------------------------------- the registry
\* (A lookup_tp that gives an unregistered thread a pool other than this.)
lookup_tp_other(t, this) ==
    IF t \in DOMAIN tp_index_ THEN tp_index_[t]
    ELSE CHOOSE P \in Pools : P # this

\* ThreadPool::lookup_tp, called by thread t on pool this.
lookup_tp(t, this) == IF t \in DOMAIN tp_index_ THEN tp_index_[t] ELSE this

Range(s) == {s[k] : k \in DOMAIN s}

\* (An add_tp_index that registers no thread.)
add_tp_index_none(P) == tp_index_

\* ThreadPool::add_tp_index on pool P: the registry afterwards.
add_tp_index(P) ==
    [w \in DOMAIN tp_index_ \cup Range(threads_[P]) |->
        IF w \in Range(threads_[P]) THEN P ELSE tp_index_[w]]

\* ThreadPool::remove_tp_index on pool P: the registry afterwards.
remove_tp_index(P) ==
    [w \in DOMAIN tp_index_ \ Range(threads_[P]) |-> tp_index_[w]]

\* ---------------------------------- wait_all, wait_all_status, wait_or_work
\* (A wait_all that goes on after the first error: the last status that is
\* not Ok.)
RECURSIVE LastNotOk(_)
LastNotOk(sts) ==
    IF sts = <<>> THEN Ok
    ELSE IF sts[Len(sts)] # Ok THEN sts[Len(sts)]
    ELSE LastNotOk(SubSeq(sts, 1, Len(sts) - 1))

\* wait_all, lines 136-141: the first status that is not Ok, or Ok.
RECURSIVE FirstNotOk(_)
FirstNotOk(sts) ==
    IF sts = <<>> THEN Ok
    ELSE IF Head(sts) # Ok THEN Head(sts)
    ELSE FirstNotOk(Tail(sts))

\* (A push at the front of the vector.)
PushedFront(f, st) == [f EXCEPT !.sts = <<st>> \o @, !.i = @ + 1, !.pc = "next"]

\* The frame after statuses.push_back(st): on to the next task of the vector.
Pushed(f, st) == [f EXCEPT !.sts = Append(@, st), !.i = @ + 1, !.pc = "next"]

\* wait_all_status returns its vector sts to wait_all (line 159), and
\* wait_all returns (lines 136-141).
wait_return(t) ==
    /\ TopIs(t, "wait")
    /\ LET f == Top(stk[t])
           s == Pop(stk[t])
           r == FirstNotOk(f.sts)
       IN /\ f.pc = "next"
          /\ f.i > Len(f.hs)
          /\ stk' = [stk EXCEPT ![t] = SetTop(s, GiveStatus(Top(s), r))]
          /\ last' = [NoCall EXCEPT !.op = "wait_all", !.t = t, !.pool = f.pool,
                                    !.hs = f.hs, !.sts = f.sts, !.ret = r,
                                    !.ooo = f.ooo]
    /\ UNCHANGED <<concurrency_level_, should_terminate_, task_stack_,
                   threads_, tp_index_, tasks, prog, terminated>>
    /\ UNCHANGED <<mutexes, md>>

\* (A wait_all_status without the test of line 148: wait_or_work for an
\* invalid task too.)
wait_invalid_works(t) ==
    /\ TopIs(t, "wait")
    /\ LET f == Top(stk[t]) IN
         /\ f.pc = "next"
         /\ f.i <= Len(f.hs)
         /\ ~valid(f.hs[f.i])
         /\ stk' = [stk EXCEPT ![t] = SetTop(@, [f EXCEPT !.pc = "lookup"])]
    /\ UNCHANGED <<concurrency_level_, should_terminate_, task_stack_,
                   threads_, tp_index_, tasks, prog, last, terminated>>
    /\ UNCHANGED <<mutexes, md>>

\* Lines 148-150: an invalid task.
wait_invalid(t) ==
    /\ TopIs(t, "wait")
    /\ LET f == Top(stk[t]) IN
         /\ f.pc = "next"
         /\ f.i <= Len(f.hs)
         /\ ~valid(f.hs[f.i])
         /\ stk' = [stk EXCEPT ![t] = SetTop(@, Pushed(f, InvalidFuture))]
    /\ UNCHANGED <<concurrency_level_, should_terminate_, task_stack_,
                   threads_, tp_index_, tasks, prog, last, terminated>>
    /\ UNCHANGED <<mutexes, md>>

\* (A wait_or_work that leaves the loop at line 165 whether the task is done
\* or not.)
wait_test_noloop(t) ==
    /\ TopIs(t, "wait")
    /\ LET f == Top(stk[t]) IN
         /\ f.pc = "next"
         /\ f.i <= Len(f.hs)
         /\ valid(f.hs[f.i])
         /\ stk' = [stk EXCEPT ![t] = SetTop(@, [f EXCEPT !.pc = "block"])]
    /\ UNCHANGED <<concurrency_level_, should_terminate_, task_stack_,
                   threads_, tp_index_, tasks, prog, last, terminated>>
    /\ UNCHANGED <<mutexes, md>>

\* (A wait_or_work without the test of line 164: it goes to help whether the
\* task is done or not.)
wait_test_nodone(t) ==
    /\ TopIs(t, "wait")
    /\ LET f == Top(stk[t]) IN
         /\ f.pc = "next"
         /\ f.i <= Len(f.hs)
         /\ valid(f.hs[f.i])
         /\ stk' = [stk EXCEPT ![t] = SetTop(@, [f EXCEPT !.pc = "lookup"])]
    /\ UNCHANGED <<concurrency_level_, should_terminate_, task_stack_,
                   threads_, tp_index_, tasks, prog, last, terminated>>
    /\ UNCHANGED <<mutexes, md>>

\* Line 164, for a valid task: on entry to wait_or_work and after every
\* inner task.
wait_test(t) ==
    /\ TopIs(t, "wait")
    /\ LET f == Top(stk[t]) IN
         /\ f.pc = "next"
         /\ f.i <= Len(f.hs)
         /\ valid(f.hs[f.i])
         /\ stk' = [stk EXCEPT ![t] = SetTop(@,
                [f EXCEPT !.pc = IF done(f.hs[f.i]) THEN "block" ELSE "lookup"])]
    /\ UNCHANGED <<concurrency_level_, should_terminate_, task_stack_,
                   threads_, tp_index_, tasks, prog, last, terminated>>
    /\ UNCHANGED <<mutexes, md>>

\* Line 170.
wait_lookup(t) ==
    /\ TopIs(t, "wait")
    /\ LET f == Top(stk[t]) IN
         /\ f.pc = "lookup"
         /\ stk' = [stk EXCEPT ![t] = SetTop(@,
                [f EXCEPT !.tp = lookup_tp(t, f.pool), !.pc = "lock"])]
    /\ UNCHANGED <<concurrency_level_, should_terminate_, task_stack_,
                   threads_, tp_index_, tasks, prog, last, terminated>>
    /\ UNCHANGED <<mutexes, md>>

\* (A wait_or_work that does not help: it leaves the loop whether the stack
\* of tp is empty or not.)
wait_work_nohelp(t) ==
    /\ TopIs(t, "wait")
    /\ LET f == Top(stk[t]) IN
         /\ f.pc = "lock"
         /\ stk' = [stk EXCEPT ![t] = SetTop(@, [f EXCEPT !.pc = "block"])]
    /\ UNCHANGED <<concurrency_level_, should_terminate_, task_stack_,
                   threads_, tp_index_, tasks, prog, last, terminated>>
    /\ UNCHANGED <<mutexes, md>>

\* (A wait_or_work without the task_stack_.pop() of line 182: it calls the
\* top task and leaves it on the stack.)
wait_work_keeps(t) ==
    /\ TopIs(t, "wait")
    /\ LET f == Top(stk[t])
           s == task_stack_[f.tp]
       IN /\ f.pc = "lock"
          /\ \/ /\ s = <<>>
                /\ stk' = [stk EXCEPT ![t] = SetTop(@, [f EXCEPT !.pc = "block"])]
                /\ UNCHANGED tasks
             \/ /\ s # <<>>
                /\ tasks' = [tasks EXCEPT ![top(s)] = Started(@, t)]
                /\ stk' = [stk EXCEPT ![t] =
                              Append(SetTop(@, [f EXCEPT !.pc = "next"]),
                                     TaskFrame(top(s)))]
    /\ UNCHANGED <<concurrency_level_, should_terminate_, task_stack_, threads_,
                   tp_index_, prog, last, terminated>>
    /\ UNCHANGED <<mutexes, md>>

\* Lines 173-189: with tp's mutex, leave the loop when tp's stack is empty,
\* else take the top task and call it.
wait_work(t) ==
    /\ TopIs(t, "wait")
    /\ LET f == Top(stk[t])
           s == task_stack_[f.tp]
       IN /\ f.pc = "lock"
          /\ \/ /\ s = <<>>
                /\ stk' = [stk EXCEPT ![t] = SetTop(@, [f EXCEPT !.pc = "block"])]
                /\ UNCHANGED <<task_stack_, tasks>>
             \/ /\ s # <<>>
                /\ task_stack_' = [task_stack_ EXCEPT ![f.tp] = pop(s)]
                /\ tasks' = [tasks EXCEPT ![top(s)] = Started(@, t)]
                /\ stk' = [stk EXCEPT ![t] =
                              Append(SetTop(@, [f EXCEPT !.pc = "next"]),
                                     TaskFrame(top(s)))]
    /\ UNCHANGED <<concurrency_level_, should_terminate_, threads_,
                   tp_index_, prog, last, terminated>>
    /\ UNCHANGED <<mutexes, md>>

\* Task<Status>::wait() returns when the task is done.
ready(h) == done(h)

\* Task<Status>::get()
get(h) == tasks[h].result

\* Whether a task later in the vector than the one the wait is at is done.
LaterDone(f) ==
    \E k \in (f.i + 1)..Len(f.hs) : valid(f.hs[k]) /\ done(f.hs[k])

\* (A wait_or_work without the task.wait() of line 192.)
wait_block_nowait(t) ==
    /\ TopIs(t, "wait")
    /\ LET f == Top(stk[t]) IN
         /\ f.pc = "block"
         /\ stk' = [stk EXCEPT ![t] = SetTop(@,
                [Pushed(f, get(f.hs[f.i])) EXCEPT !.ooo = f.ooo \/ LaterDone(f)])]
    /\ UNCHANGED <<concurrency_level_, should_terminate_, task_stack_,
                   threads_, tp_index_, tasks, prog, last, terminated>>
    /\ UNCHANGED <<mutexes, md>>

\* Lines 192-193, and line 156.  (ooo records that the tasks of the vector
\* did not complete in the order of the vector.)
wait_block(t) ==
    /\ TopIs(t, "wait")
    /\ LET f == Top(stk[t]) IN
         /\ f.pc = "block"
         /\ ready(f.hs[f.i])
         /\ stk' = [stk EXCEPT ![t] = SetTop(@,
                [Pushed(f, get(f.hs[f.i])) EXCEPT !.ooo = f.ooo \/ LaterDone(f)])]
    /\ UNCHANGED <<concurrency_level_, should_terminate_, task_stack_,
                   threads_, tp_index_, tasks, prog, last, terminated>>
    /\ UNCHANGED <<mutexes, md>>

\* ---------------------------------------------------- ThreadPool::worker
\* The predicate of the wait of line 219.
WorkerMayGo(P) == should_terminate_[P] \/ task_stack_[P] # <<>>

\* Lines 223-230, with the mutex: worker t of P takes the top task, if there
\* is one, and calls it.
worker_take(t, P) ==
    LET f == Top(stk[t])
        s == task_stack_[P]
    IN \/ /\ s = <<>>
          /\ stk' = [stk EXCEPT ![t] = SetTop(@, [f EXCEPT !.pc = "check"])]
          /\ UNCHANGED <<task_stack_, tasks>>
       \/ /\ s # <<>>
          /\ task_stack_' = [task_stack_ EXCEPT ![P] = pop(s)]
          /\ tasks' = [tasks EXCEPT ![top(s)] = Started(@, t)]
          /\ stk' = [stk EXCEPT ![t] =
                        Append(SetTop(@, [f EXCEPT !.pc = "check"]),
                               TaskFrame(top(s)))]

\* Lines 218-230: a worker that comes to the wait, or was notified, takes the
\* mutex; it blocks when the predicate is false.
worker_pop(t) ==
    /\ TopIs(t, "worker")
    /\ LET f == Top(stk[t]) IN
         /\ f.pc = "lock"
         /\ \/ /\ ~WorkerMayGo(f.pool)
               /\ stk' = [stk EXCEPT ![t] = SetTop(@, [f EXCEPT !.pc = "sleep"])]
               /\ UNCHANGED <<task_stack_, tasks>>
            \/ /\ WorkerMayGo(f.pool)
               /\ worker_take(t, f.pool)
    /\ UNCHANGED <<concurrency_level_, should_terminate_, threads_,
                   tp_index_, prog, last, terminated>>
    /\ UNCHANGED <<mutexes, md>>

\* (A wake-up that does not test the predicate: the worker goes on as if it
\* had been true.)
worker_wake_unchecked(t) ==
    /\ TopIs(t, "worker")
    /\ LET f == Top(stk[t]) IN
         /\ f.pc = "sleep"
         /\ worker_take(t, f.pool)
    /\ UNCHANGED <<concurrency_level_, should_terminate_, threads_,
                   tp_index_, prog, last, terminated>>
    /\ UNCHANGED <<mutexes, md>>

\* A spurious wake-up of a worker blocked in the wait of line 219: it tests
\* the predicate with the mutex, and blocks again when it is false (which
\* changes nothing).
worker_wake(t) ==
    /\ TopIs(t, "worker")
    /\ LET f == Top(stk[t]) IN
         /\ f.pc = "sleep"
         /\ WorkerMayGo(f.pool)
         /\ worker_take(t, f.pool)
    /\ UNCHANGED <<concurrency_level_, should_terminate_, threads_,
                   tp_index_, prog, last, terminated>>
    /\ UNCHANGED <<mutexes, md>>

\* Lines 232-233: leave the loop when should_terminate_ is set.
worker_check(t) ==
    /\ TopIs(t, "worker")
    /\ LET f == Top(stk[t]) IN
         /\ f.pc = "check"
         /\ stk' = [stk EXCEPT ![t] =
                IF should_terminate_[f.pool] THEN <<>>
                ELSE SetTop(@, [f EXCEPT !.pc = "lock"])]
    /\ UNCHANGED <<concurrency_level_, should_terminate_, task_stack_,
                   threads_, tp_index_, tasks, prog, last, terminated>>
    /\ UNCHANGED <<mutexes, md>>

\* ------------------------------------------------- ThreadPool::terminate
\* std::thread::join returns when the thread has left its function.
Exited(w) == stk[w] = <<>>

\* (A terminate that inverts should_terminate_.)
terminate_flag_flips(t) ==
    /\ TopIs(t, "terminate")
    /\ LET f == Top(stk[t]) IN
         /\ f.pc = "flag"
         /\ should_terminate_' = [should_terminate_ EXCEPT ![f.pool] = ~@]
         /\ stk' = notify_all(f.pool,
                      [stk EXCEPT ![t] = SetTop(@, [f EXCEPT !.pc = "unreg"])])
    /\ UNCHANGED <<concurrency_level_, task_stack_, threads_, tp_index_,
                   tasks, prog, last, terminated>>
    /\ UNCHANGED <<mutexes, md>>

\* (A terminate without the notify_all() of line 200.)
terminate_flag_silent(t) ==
    /\ TopIs(t, "terminate")
    /\ LET f == Top(stk[t]) IN
         /\ f.pc = "flag"
         /\ should_terminate_' = [should_terminate_ EXCEPT ![f.pool] = TRUE]
         /\ stk' = [stk EXCEPT ![t] = SetTop(@, [f EXCEPT !.pc = "unreg"])]
    /\ UNCHANGED <<concurrency_level_, task_stack_, threads_, tp_index_,
                   tasks, prog, last, terminated>>
    /\ UNCHANGED <<mutexes, md>>

\* Lines 198-200.
terminate_flag(t) ==
    /\ TopIs(t, "terminate")
    /\ LET f == Top(stk[t]) IN
         /\ f.pc = "flag"
         /\ should_terminate_' = [should_terminate_ EXCEPT ![f.pool] = TRUE]
         /\ stk' = notify_all(f.pool,
                      [stk EXCEPT ![t] = SetTop(@, [f EXCEPT !.pc = "unreg"])])
    /\ UNCHANGED <<concurrency_level_, task_stack_, threads_, tp_index_,
                   tasks, prog, last, terminated>>
    /\ UNCHANGED <<mutexes, md>>

\* (A terminate without the remove_tp_index() of line 203.)
terminate_unreg_skips(t) ==
    /\ TopIs(t, "terminate")
    /\ LET f == Top(stk[t]) IN
         /\ f.pc = "unreg"
         /\ stk' = [stk EXCEPT ![t] = SetTop(@, [f EXCEPT !.pc = "join"])]
    /\ UNCHANGED <<concurrency_level_, should_terminate_, task_stack_,
                   threads_, tp_index_, tasks, prog, last, terminated>>
    /\ UNCHANGED <<mutexes, md>>

\* Line 203.
terminate_unreg(t) ==
    /\ TopIs(t, "terminate")
    /\ LET f == Top(stk[t]) IN
         /\ f.pc = "unreg"
         /\ tp_index_' = remove_tp_index(f.pool)
         /\ stk' = [stk EXCEPT ![t] = SetTop(@, [f EXCEPT !.pc = "join"])]
    /\ UNCHANGED <<concurrency_level_, should_terminate_, task_stack_,
                   threads_, tasks, prog, last, terminated>>
    /\ UNCHANGED <<mutexes, md>>

\* (A terminate that does not join its threads.)
terminate_join_nowait(t) ==
    /\ TopIs(t, "terminate")
    /\ LET f == Top(stk[t]) IN
         /\ f.pc = "join"
         /\ f.j <= Len(threads_[f.pool])
         /\ stk' = [stk EXCEPT ![t] = SetTop(@, [f EXCEPT !.j = @ + 1])]
    /\ UNCHANGED <<concurrency_level_, should_terminate_, task_stack_,
                   threads_, tp_index_, tasks, prog, last, terminated>>
    /\ UNCHANGED <<mutexes, md>>

\* Lines 205-207: the next join.
terminate_join(t) ==
    /\ TopIs(t, "terminate")
    /\ LET f == Top(stk[t]) IN
         /\ f.pc = "join"
         /\ f.j <= Len(threads_[f.pool])
         /\ Exited(threads_[f.pool][f.j])
         /\ stk' = [stk EXCEPT ![t] = SetTop(@, [f EXCEPT !.j = @ + 1])]
    /\ UNCHANGED <<concurrency_level_, should_terminate_, task_stack_,
                   threads_, tp_index_, tasks, prog, last, terminated>>
    /\ UNCHANGED <<mutexes, md>>

\* Line 209, and the return.
terminate_clear(t) ==
    /\ TopIs(t, "terminate")
    /\ LET f == Top(stk[t]) IN
         /\ f.pc = "join"
         /\ f.j > Len(threads_[f.pool])
         /\ threads_' = [threads_ EXCEPT ![f.pool] = <<>>]
         /\ stk' = [stk EXCEPT ![t] = Pop(@)]
         /\ last' = [NoCall EXCEPT !.op = "terminate", !.t = t, !.pool = f.pool]
         /\ terminated' = [terminated EXCEPT ![f.pool] = "yes"]
    /\ UNCHANGED <<concurrency_level_, should_terminate_, task_stack_,
                   tp_index_, tasks, prog>>
    /\ UNCHANGED <<mutexes, md>>

\* ------------------------------------------------------ ThreadPool::init
\* The id of the next thread to be created.
NewThread == Cardinality(DOMAIN stk)

\* Line 68: one more worker thread, which starts in worker().
init_spawn(t) ==
    /\ TopIs(t, "init")
    /\ LET f == Top(stk[t])
           w == NewThread
       IN /\ f.pc = "spawn"
          /\ f.i < f.n - 1
          /\ f.failAt # f.i + 1
          /\ threads_' = [threads_ EXCEPT ![f.pool] = Append(@, w)]
          /\ stk' = [u \in DOMAIN stk \cup {w} |->
                        IF u = w THEN <<WorkerFrame(f.pool)>>
                        ELSE IF u = t THEN SetTop(stk[t], [f EXCEPT !.i = @ + 1])
                        ELSE stk[u]]
    /\ UNCHANGED <<concurrency_level_, should_terminate_, task_stack_,
                   tp_index_, tasks, prog, last, terminated>>
    /\ UNCHANGED <<mutexes, md>>

\* Lines 69-80: the thread cannot be created; init calls terminate.
init_spawn_fails(t) ==
    /\ TopIs(t, "init")
    /\ LET f == Top(stk[t]) IN
         /\ f.pc = "spawn"
         /\ f.i < f.n - 1
         /\ f.failAt = f.i + 1
         /\ stk' = [stk EXCEPT ![t] =
                       Append(SetTop(@, [f EXCEPT !.pc = "failed"]),
                              TerminateFrame(f.pool))]
    /\ UNCHANGED <<concurrency_level_, should_terminate_, task_stack_,
                   threads_, tp_index_, tasks, prog, last, terminated>>
    /\ UNCHANGED <<mutexes, md>>

\* Line 81.
init_failed(t) ==
    /\ TopIs(t, "init")
    /\ LET f == Top(stk[t]) IN
         /\ f.pc = "failed"
         /\ stk' = [stk EXCEPT ![t] = Pop(@)]
         /\ last' = [NoCall EXCEPT !.op = "init", !.t = t, !.pool = f.pool,
                                   !.ret = SpawnError]
    /\ UNCHANGED <<concurrency_level_, should_terminate_, task_stack_,
                   threads_, tp_index_, tasks, prog, terminated>>
    /\ UNCHANGED <<mutexes, md>>

\* (An init that clears should_terminate_ when it saves the level.)
init_save_rearms(t) ==
    /\ TopIs(t, "init")
    /\ LET f == Top(stk[t]) IN
         /\ f.pc = "spawn"
         /\ f.i = f.n - 1
         /\ concurrency_level_' = [concurrency_level_ EXCEPT ![f.pool] = f.n]
         /\ should_terminate_' = [should_terminate_ EXCEPT ![f.pool] = FALSE]
         /\ stk' = [stk EXCEPT ![t] = SetTop(@, [f EXCEPT !.pc = "index"])]
    /\ UNCHANGED <<task_stack_, threads_, tp_index_,
                   tasks, prog, last, terminated>>
    /\ UNCHANGED <<mutexes, md>>

\* Line 85.
init_save(t) ==
    /\ TopIs(t, "init")
    /\ LET f == Top(stk[t]) IN
         /\ f.pc = "spawn"
         /\ f.i = f.n - 1
         /\ concurrency_level_' = [concurrency_level_ EXCEPT ![f.pool] = f.n]
         /\ stk' = [stk EXCEPT ![t] = SetTop(@, [f EXCEPT !.pc = "index"])]
    /\ UNCHANGED <<should_terminate_, task_stack_, threads_, tp_index_,
                   tasks, prog, last, terminated>>
    /\ UNCHANGED <<mutexes, md>>

\* Lines 88-90.
init_index(t) ==
    /\ TopIs(t, "init")
    /\ LET f == Top(stk[t]) IN
         /\ f.pc = "index"
         /\ tp_index_' = add_tp_index(f.pool)
         /\ stk' = [stk EXCEPT ![t] = Pop(@)]
         /\ last' = [NoCall EXCEPT !.op = "init", !.t = t, !.pool = f.pool,
                                   !.ret = Ok]
    /\ UNCHANGED <<concurrency_level_, should_terminate_, task_stack_,
                   threads_, tasks, prog, terminated>>
    /\ UNCHANGED <<mutexes, md>>

\* ------------------------------------------------ the application thread
\* The calls of a client program.
CallInit(P, n, failAt) ==
    [op |-> "init", pool |-> P, n |-> n, failAt |-> failAt, body |-> Leaf(TRUE)]
CallSubmit(P, c) ==
    [op |-> "submit", pool |-> P, n |-> 0, failAt |-> 0, body |-> c]
CallWait(P) ==
    [op |-> "wait_all", pool |-> P, n |-> 0, failAt |-> 0, body |-> Leaf(TRUE)]
CallTerminate(P) ==
    [op |-> "terminate", pool |-> P, n |-> 0, failAt |-> 0, body |-> Leaf(TRUE)]

\* The client program: the calls of pre in order, and then up to prog.calls
\* calls, each any call of prog.ops.
NextCalls ==
    IF prog.pre # <<>> THEN {Head(prog.pre)}
    ELSE IF prog.calls > 0 THEN prog.ops
    ELSE {}

Called ==
    IF prog.pre # <<>> THEN [prog EXCEPT !.pre = Tail(@)]
    ELSE [prog EXCEPT !.calls = @ - 1]

AtCall(c) == TopIs(Main, "main") /\ c \in NextCalls

\* (An init without the test of line 55.)
main_init_unchecked(c) ==
    /\ AtCall(c)
    /\ c.op = "init"
    /\ stk' = [stk EXCEPT ![Main] = Append(@, InitFrame(c.pool, c.n, c.failAt))]
    /\ terminated' = [terminated EXCEPT ![c.pool] =
                            IF @ = "no" THEN "no" ELSE "reinit"]
    /\ prog' = Called
    /\ UNCHANGED <<concurrency_level_, should_terminate_, task_stack_,
                   threads_, tp_index_, tasks, last>>
    /\ UNCHANGED <<mutexes, md>>

\* pool.init(n)
main_init(c) ==
    /\ AtCall(c)
    /\ c.op = "init"
    /\ \/ /\ c.n = 0      \* lines 55-58
          /\ last' = [NoCall EXCEPT !.op = "init", !.pool = c.pool,
                                    !.ret = ZeroLevelError]
          /\ UNCHANGED <<stk, terminated>>
       \/ /\ c.n > 0
          /\ stk' = [stk EXCEPT ![Main] = Append(@, InitFrame(c.pool, c.n, c.failAt))]
          /\ terminated' = [terminated EXCEPT ![c.pool] =
                                  IF @ = "no" THEN "no" ELSE "reinit"]
          /\ UNCHANGED last
    /\ prog' = Called
    /\ UNCHANGED <<concurrency_level_, should_terminate_, task_stack_,
                   threads_, tp_index_, tasks>>
    /\ UNCHANGED <<mutexes, md>>

\* pool.execute(closure); the application thread keeps the handle.
main_submit(c) ==
    /\ AtCall(c)
    /\ c.op = "submit"
    /\ execute(Main, c.pool, c.body)
    /\ prog' = Called
    /\ UNCHANGED <<concurrency_level_, should_terminate_, threads_, tp_index_,
                   last, terminated>>
    /\ UNCHANGED <<mutexes, md>>

\* pool.wait_all(hs), hs the handles the application thread keeps; wait_all
\* calls wait_all_status(hs) (line 135).
main_wait(c) ==
    /\ AtCall(c)
    /\ c.op = "wait_all"
    /\ stk' = [stk EXCEPT ![Main] =
                  Append(@, WaitFrame(c.pool, Top(stk[Main]).hs))]
    /\ prog' = Called
    /\ UNCHANGED <<concurrency_level_, should_terminate_, task_stack_,
                   threads_, tp_index_, tasks, last, terminated>>
    /\ UNCHANGED <<mutexes, md>>

\* pool.terminate()
main_terminate(c) ==
    /\ AtCall(c)
    /\ c.op = "terminate"
    /\ stk' = [stk EXCEPT ![Main] = Append(@, TerminateFrame(c.pool))]
    /\ prog' = Called
    /\ UNCHANGED <<concurrency_level_, should_terminate_, task_stack_,
                   threads_, tp_index_, tasks, last, terminated>>
    /\ UNCHANGED <<mutexes, md>>

\* ------------------------------------------------------------ the mutexes
\* execute, worker, wait_or_work and lookup_tp in steps that take and
\* release task_stack_mutex_ and tp_index_lock_ one at a time.  A frame keeps
\* the task it has moved out of the stack in the field task until it calls
\* it.
Owner(t) == <<t, Len(stk[t])>>

WithTask(f, h) == [x \in DOMAIN f \cup {"task"} |-> IF x = "task" THEN h ELSE f[x]]
WithoutTask(f) == [x \in DOMAIN f \ {"task"} |-> f[x]]

\* std::unique_lock<std::mutex>(m): blocks while another frame holds m.
lock(m, P, t) == [m EXCEPT ![P] = Owner(t)]
\* unlock(), and the destructor of a lock that owns the mutex.
unlock(m, P, t) == [m EXCEPT ![P] = IF @ = Owner(t) THEN NoOwner ELSE @]

\* The frame of P.execute(c) on entry.
CallFrame(P, c) ==
    [fn |-> "execute", pool |-> P, body |-> c, h |-> NoHandle, pc |-> "level"]

\* pool.execute(closure), called by the application thread.
main_execute(c) ==
    /\ AtCall(c)
    /\ c.op = "submit"
    /\ stk' = [stk EXCEPT ![Main] = Append(@, CallFrame(c.pool, c.body))]
    /\ prog' = Called
    /\ UNCHANGED <<concurrency_level_, should_terminate_, task_stack_, threads_,
                   tp_index_, tasks, last, terminated, mutexes, md>>

\* A parent closure calls execute for its next child.
parent_execute(t) ==
    /\ TopIs(t, "task")
    /\ LET f == Top(stk[t])
           b == tasks[f.h].body
       IN /\ f.pc = "run"
          /\ b.kind = "parent"
          /\ Len(f.hs) < Len(b.kids)
          /\ stk' = [stk EXCEPT ![t] =
                        Append(@, CallFrame(b.q, Leaf(b.kids[Len(f.hs) + 1])))]
    /\ UNCHANGED <<concurrency_level_, should_terminate_, task_stack_, threads_,
                   tp_index_, tasks, prog, last, terminated, mutexes, md>>

\* Lines 95-99.
execute_level(t) ==
    /\ TopIs(t, "execute")
    /\ LET f == Top(stk[t])
           s == Pop(stk[t])
       IN /\ f.pc = "level"
          /\ stk' = [stk EXCEPT ![t] =
                IF concurrency_level_[f.pool] = 0
                THEN SetTop(s, GiveHandle(Top(s), NoHandle))
                ELSE SetTop(@, [f EXCEPT !.pc = "lock"])]
    /\ UNCHANGED <<concurrency_level_, should_terminate_, task_stack_, threads_,
                   tp_index_, tasks, prog, last, terminated, mutexes, md>>

\* Line 101.
execute_lock(t) ==
    /\ TopIs(t, "execute")
    /\ LET f == Top(stk[t]) IN
         /\ f.pc = "lock"
         /\ task_stack_mutex_[f.pool] = NoOwner
         /\ task_stack_mutex_' = lock(task_stack_mutex_, f.pool, t)
         /\ stk' = [stk EXCEPT ![t] = SetTop(@, [f EXCEPT !.pc = "test"])]
    /\ UNCHANGED <<concurrency_level_, should_terminate_, task_stack_, threads_,
                   tp_index_, tasks, prog, last, terminated, tp_index_lock_, md>>

\* (An execute that calls the task at level 1 before it unlocks the mutex:
\* lines 122 and 123 in the other order.)
execute_section_holds(t) ==
    /\ TopIs(t, "execute")
    /\ LET f == Top(stk[t])
           s == Pop(stk[t])
           P == f.pool
           h == Len(tasks) + 1
       IN /\ f.pc = "test"
          /\ \/ /\ should_terminate_[P]
                /\ stk' = [stk EXCEPT ![t] = SetTop(s, GiveHandle(Top(s), NoHandle))]
                /\ task_stack_mutex_' = unlock(task_stack_mutex_, P, t)
                /\ UNCHANGED <<tasks, task_stack_>>
             \/ /\ ~should_terminate_[P]
                /\ concurrency_level_[P] > 1
                /\ tasks' = Append(tasks, NewTask(P, f.body))
                /\ task_stack_' = [task_stack_ EXCEPT ![P] = push(@, h)]
                /\ stk' \in notify_one(P,
                      [stk EXCEPT ![t] = SetTop(@, [f EXCEPT !.h = h, !.pc = "ret"])])
                /\ task_stack_mutex_' = unlock(task_stack_mutex_, P, t)
             \/ /\ ~should_terminate_[P]
                /\ ~(concurrency_level_[P] > 1)
                /\ tasks' = Append(tasks, NewTask(P, f.body))
                /\ stk' = [stk EXCEPT ![t] = SetTop(@, [f EXCEPT !.h = h, !.pc = "call"])]
                /\ UNCHANGED <<task_stack_, task_stack_mutex_>>
    /\ UNCHANGED <<concurrency_level_, should_terminate_, threads_,
                   tp_index_, prog, last, terminated, tp_index_lock_, md>>

\* Lines 103-122, with the mutex: the invalid future when the pool has
\* terminated; else the task is made, and pushed and a worker notified at a
\* level above 1; the mutex is unlocked on every path.
execute_section(t) ==
    /\ TopIs(t, "execute")
    /\ LET f == Top(stk[t])
           s == Pop(stk[t])
           P == f.pool
           h == Len(tasks) + 1
       IN /\ f.pc = "test"
          /\ task_stack_mutex_' = unlock(task_stack_mutex_, P, t)
          /\ \/ /\ should_terminate_[P]
                /\ stk' = [stk EXCEPT ![t] = SetTop(s, GiveHandle(Top(s), NoHandle))]
                /\ UNCHANGED <<tasks, task_stack_>>
             \/ /\ ~should_terminate_[P]
                /\ concurrency_level_[P] > 1
                /\ tasks' = Append(tasks, NewTask(P, f.body))
                /\ task_stack_' = [task_stack_ EXCEPT ![P] = push(@, h)]
                /\ stk' \in notify_one(P,
                      [stk EXCEPT ![t] = SetTop(@, [f EXCEPT !.h = h, !.pc = "ret"])])
             \/ /\ ~should_terminate_[P]
                /\ ~(concurrency_level_[P] > 1)
                /\ tasks' = Append(tasks, NewTask(P, f.body))
                /\ stk' = [stk EXCEPT ![t] = SetTop(@, [f EXCEPT !.h = h, !.pc = "call"])]
                /\ UNCHANGED task_stack_
    /\ UNCHANGED <<concurrency_level_, should_terminate_, threads_,
                   tp_index_, prog, last, terminated, tp_index_lock_, md>>

\* Line 123.
execute_call(t) ==
    /\ TopIs(t, "execute")
    /\ LET f == Top(stk[t]) IN
         /\ f.pc = "call"
         /\ tasks' = [tasks EXCEPT ![f.h] = Started(@, t)]
         /\ stk' = [stk EXCEPT ![t] =
                       Append(SetTop(@, [f EXCEPT !.pc = "ret"]), TaskFrame(f.h))]
    /\ UNCHANGED <<concurrency_level_, should_terminate_, task_stack_, threads_,
                   tp_index_, prog, last, terminated, mutexes, md>>

\* Lines 126-128: the future goes to the caller, and lck is destroyed.
execute_future(t) ==
    /\ TopIs(t, "execute")
    /\ LET f == Top(stk[t])
           s == Pop(stk[t])
       IN /\ f.pc = "ret"
          /\ task_stack_mutex_' = unlock(task_stack_mutex_, f.pool, t)
          /\ stk' = [stk EXCEPT ![t] = SetTop(s, GiveHandle(Top(s), f.h))]
    /\ UNCHANGED <<concurrency_level_, should_terminate_, task_stack_, threads_,
                   tp_index_, tasks, prog, last, terminated, tp_index_lock_, md>>

\* Line 218, and the mutex taken again by a worker that was woken.
worker_lock(t) ==
    /\ TopIs(t, "worker")
    /\ LET f == Top(stk[t]) IN
         /\ f.pc = "lock"
         /\ task_stack_mutex_[f.pool] = NoOwner
         /\ task_stack_mutex_' = lock(task_stack_mutex_, f.pool, t)
         /\ stk' = [stk EXCEPT ![t] = SetTop(@, [f EXCEPT !.pc = "wait"])]
    /\ UNCHANGED <<concurrency_level_, should_terminate_, task_stack_, threads_,
                   tp_index_, tasks, prog, last, terminated, tp_index_lock_, md>>

\* Lines 219-227, with the mutex: the worker blocks, which unlocks the mutex,
\* when the predicate is false; else it moves the top task, if there is one,
\* out of the stack, and the scope of lck ends.
worker_section(t) ==
    /\ TopIs(t, "worker")
    /\ LET f == Top(stk[t])
           P == f.pool
           s == task_stack_[P]
       IN /\ f.pc = "wait"
          /\ task_stack_mutex_' = unlock(task_stack_mutex_, P, t)
          /\ \/ /\ ~WorkerMayGo(P)
                /\ stk' = [stk EXCEPT ![t] = SetTop(@, [f EXCEPT !.pc = "sleep"])]
                /\ UNCHANGED task_stack_
             \/ /\ WorkerMayGo(P)
                /\ s = <<>>
                /\ stk' = [stk EXCEPT ![t] = SetTop(@, [f EXCEPT !.pc = "check"])]
                /\ UNCHANGED task_stack_
             \/ /\ WorkerMayGo(P)
                /\ s # <<>>
                /\ task_stack_' = [task_stack_ EXCEPT ![P] = pop(s)]
                /\ stk' = [stk EXCEPT ![t] =
                              SetTop(@, WithTask([f EXCEPT !.pc = "call"], top(s)))]
    /\ UNCHANGED <<concurrency_level_, should_terminate_, threads_, tp_index_,
                   tasks, prog, last, terminated, tp_index_lock_, md>>

\* Lines 229-230.
worker_call(t) ==
    /\ TopIs(t, "worker")
    /\ LET f == Top(stk[t]) IN
         /\ f.pc = "call"
         /\ tasks' = [tasks EXCEPT ![f.task] = Started(@, t)]
         /\ stk' = [stk EXCEPT ![t] =
                       Append(SetTop(@, [WithoutTask(f) EXCEPT !.pc = "check"]),
                              TaskFrame(f.task))]
    /\ UNCHANGED <<concurrency_level_, should_terminate_, task_stack_, threads_,
                   tp_index_, prog, last, terminated, mutexes, md>>

\* A worker blocked in the wait of line 219 wakes without a notification.
worker_spurious(t) ==
    /\ TopIs(t, "worker")
    /\ Top(stk[t]).pc = "sleep"
    /\ stk' = [stk EXCEPT ![t] = Woken(@)]
    /\ UNCHANGED <<concurrency_level_, should_terminate_, task_stack_, threads_,
                   tp_index_, tasks, prog, last, terminated, mutexes, md>>

\* Line 251, called at line 170.
lookup_lock(t) ==
    /\ TopIs(t, "wait")
    /\ LET f == Top(stk[t]) IN
         /\ f.pc = "lookup"
         /\ tp_index_lock_ = NoOwner
         /\ tp_index_lock_' = Owner(t)
         /\ stk' = [stk EXCEPT ![t] = SetTop(@, [f EXCEPT !.pc = "index"])]
    /\ UNCHANGED <<concurrency_level_, should_terminate_, task_stack_, threads_,
                   tp_index_, tasks, prog, last, terminated, task_stack_mutex_, md>>

\* Lines 252-254: the result, and the end of the lock_guard.
lookup_return(t) ==
    /\ TopIs(t, "wait")
    /\ LET f == Top(stk[t]) IN
         /\ f.pc = "index"
         /\ tp_index_lock_' = NoOwner
         /\ stk' = [stk EXCEPT ![t] = SetTop(@,
                [f EXCEPT !.tp = lookup_tp(t, f.pool), !.pc = "lock"])]
    /\ UNCHANGED <<concurrency_level_, should_terminate_, task_stack_, threads_,
                   tp_index_, tasks, prog, last, terminated, task_stack_mutex_, md>>

\* Line 173.
wait_lock(t) ==
    /\ TopIs(t, "wait")
    /\ LET f == Top(stk[t]) IN
         /\ f.pc = "lock"
         /\ task_stack_mutex_[f.tp] = NoOwner
         /\ task_stack_mutex_' = lock(task_stack_mutex_, f.tp, t)
         /\ stk' = [stk EXCEPT ![t] = SetTop(@, [f EXCEPT !.pc = "locked"])]
    /\ UNCHANGED <<concurrency_level_, should_terminate_, task_stack_, threads_,
                   tp_index_, tasks, prog, last, terminated, tp_index_lock_, md>>

\* Lines 176-185, with the mutex of tp: the break, which ends the scope of
\* lock, when tp's stack is empty; else the top task is moved out of the
\* stack and the mutex unlocked.
wait_section(t) ==
    /\ TopIs(t, "wait")
    /\ LET f == Top(stk[t])
           s == task_stack_[f.tp]
       IN /\ f.pc = "locked"
          /\ task_stack_mutex_' = unlock(task_stack_mutex_, f.tp, t)
          /\ \/ /\ s = <<>>
                /\ stk' = [stk EXCEPT ![t] = SetTop(@, [f EXCEPT !.pc = "block"])]
                /\ UNCHANGED task_stack_
             \/ /\ s # <<>>
                /\ task_stack_' = [task_stack_ EXCEPT ![f.tp] = pop(s)]
                /\ stk' = [stk EXCEPT ![t] =
                              SetTop(@, WithTask([f EXCEPT !.pc = "call"], top(s)))]
    /\ UNCHANGED <<concurrency_level_, should_terminate_, threads_, tp_index_,
                   tasks, prog, last, terminated, tp_index_lock_, md>>

\* Lines 188-189.
wait_call(t) ==
    /\ TopIs(t, "wait")
    /\ LET f == Top(stk[t]) IN
         /\ f.pc = "call"
         /\ tasks' = [tasks EXCEPT ![f.task] = Started(@, t)]
         /\ stk' = [stk EXCEPT ![t] =
                       Append(SetTop(@, [WithoutTask(f) EXCEPT !.pc = "next"]),
                              TaskFrame(f.task))]
    /\ UNCHANGED <<concurrency_level_, should_terminate_, task_stack_, threads_,
                   tp_index_, prog, last, terminated, mutexes, md>>

\* ------------------------------------------------------- MetadataCompute
\* A MetadataCompute of Datatype::UINT8 (constructor, lines 151-158): T is
\* uint8_t, the cell size is 1, min_func_ is not nullptr, and the sums of the
\* tiles of the bounds are far from 2^64.  A buffer is the sequence of its
\* elements: cells in a fixed-size tile, uint64_t offsets in a var-size
\* tile, bytes in var-size data and in a validity buffer.
Tile(b) == [buffer |-> b]

\* *(T* )p for a pointer into the buffer of a fixed-size tile; what lies
\* after the buffer is unknown.
Cell(p) == IF p.off < Len(tile.buffer) THEN tile.buffer[p.off + 1] ELSE past

\* Whether the cell p points to is outside the buffer.
Outside(p) == p.off >= Len(tile.buffer)

min(current, val) == IF Cell(current) < Cell(val) THEN current ELSE val

max(current, val) == IF Cell(current) > Cell(val) THEN current ELSE val

sum_unsigned(sum, val) == sum + Cell(val)

min_nullable(current, val, non_null) ==
    IF non_null /\ Cell(current) > Cell(val) THEN val ELSE current

max_nullable(current, val, non_null) ==
    IF non_null /\ Cell(current) < Cell(val) THEN val ELSE current

sum_unsigned_nullable(sum, val, non_null) ==
    IF non_null THEN sum + Cell(val) ELSE sum

\* The byte at offset o of the var-size data.
Byte(o) == IF o < Len(tile_var.buffer) THEN tile_var.buffer[o + 1] ELSE past

\* strncmp(s1, s2, n) from the k-th byte on, s1 and s2 offsets into the
\* var-size data: bytes compare as unsigned char, and the comparison ends
\* after n bytes, at the first difference or after a NUL.
RECURSIVE strncmp_from(_, _, _, _)
strncmp_from(s1, s2, n, k) ==
    IF k = n THEN 0
    ELSE IF Byte(s1 + k) # Byte(s2 + k)
         THEN (IF Byte(s1 + k) < Byte(s2 + k) THEN -1 ELSE 1)
    ELSE IF Byte(s1 + k) = 0 THEN 0
    ELSE strncmp_from(s1, s2, n, k + 1)

strncmp(s1, s2, n) == strncmp_from(s1, s2, n, 0)

\* Whether strncmp(s1, s2, n) reads a byte outside the var-size data.
RECURSIVE strncmp_outside(_, _, _, _)
strncmp_outside(s1, s2, n, k) ==
    IF k = n THEN FALSE
    ELSE \/ s1 + k >= Len(tile_var.buffer)
         \/ s2 + k >= Len(tile_var.buffer)
         \/ /\ Byte(s1 + k) = Byte(s2 + k)
            /\ Byte(s1 + k) # 0
            /\ strncmp_outside(s1, s2, n, k + 1)

\* std::min<size_t>
std_min(a, b) == IF b < a THEN b ELSE a

\* min_var and max_var on the fields m of the MetadataCompute.
min_var(m, val, size) ==
    LET min_size == std_min(m.min_size_, size)
        cmp == strncmp(m.min_.off, val.off, min_size)
        read == [m EXCEPT !.overrun =
                    @ \/ strncmp_outside(m.min_.off, val.off, min_size, 0)]
    IN IF cmp # 0
       THEN (IF cmp > 0 THEN [read EXCEPT !.min_ = val, !.min_size_ = size]
             ELSE read)
       ELSE (IF size < min_size
             THEN [read EXCEPT !.min_ = val, !.min_size_ = size]
             ELSE read)

max_var(m, val, size) ==
    LET min_size == std_min(m.min_size_, size)
        cmp == strncmp(m.max_.off, val.off, min_size)
        read == [m EXCEPT !.overrun =
                    @ \/ strncmp_outside(m.max_.off, val.off, min_size, 0)]
    IN IF cmp # 0
       THEN (IF cmp > 0 THEN [read EXCEPT !.max_ = val, !.max_size_ = size]
             ELSE read)
       ELSE (IF size > min_size
             THEN [read EXCEPT !.max_ = val, !.max_size_ = size]
             ELSE read)

\* Lines 274-279, from cell c on; current is the c-th cell.
RECURSIVE fixed_loop(_, _)
fixed_loop(m, c) ==
    LET current == Ptr("tile", c) IN
    IF c < Len(tile.buffer)
    THEN fixed_loop([m EXCEPT !.min_ = min(m.min_, current),
                              !.max_ = max(m.max_, current),
                              !.sum_ = sum_unsigned(m.sum_, current)],
                    c + 1)
    ELSE m

\* Lines 283-291, from c on: line 269 has moved current to the cell after
\* the first, so that current is cell c + 1 when current_val is byte c; and
\* line 285 gives max_nullable_func_ the new min_.
RECURSIVE nullable_loop(_, _)
nullable_loop(m, c) ==
    LET current == Ptr("tile", c + 1)
        current_val == tile_val.buffer[c + 1]
        non_null == current_val # 0
        new_min == min_nullable(m.min_, current, non_null)
    IN
    IF c < Len(tile.buffer)
    THEN nullable_loop(
            [m EXCEPT !.min_ = new_min,
                      !.max_ = max_nullable(new_min, current, non_null),
                      !.sum_ = sum_unsigned_nullable(m.sum_, current, non_null),
                      !.non_null_count_ = @ + current_val,
                      !.overrun = @ \/ (non_null /\ Outside(current))],
            c + 1)
    ELSE m

\* Lines 306-314 and 318-329, from c on; current_off is the c-th offset, and
\* in a nullable tile current_val is byte c - 1.
RECURSIVE var_loop(_, _)
var_loop(m, c) ==
    LET cell_num == Len(tile.buffer)
        current_off == tile.buffer[c + 1]
        value == Ptr("var", current_off)
        size == IF c = cell_num - 1 THEN Len(tile_var.buffer) - current_off
                ELSE tile.buffer[c + 2] - current_off
        m2 == max_var(min_var(m, value, size), value, size)
    IN
    IF c < cell_num
    THEN var_loop(IF tile_val = nullptr THEN m2
                  ELSE [m2 EXCEPT !.non_null_count_ = @ + tile_val.buffer[c]],
                  c + 1)
    ELSE m

\* The fields after lines 253-257.
Reset ==
    [min_ |-> nullptr, max_ |-> nullptr, sum_ |-> 0, non_null_count_ |-> 0,
     min_size_ |-> 0, max_size_ |-> 0, overrun |-> FALSE]

\* compute_md(tile, tile_var, tile_val)
compute_md ==
    /\ LET cell_num == Len(tile.buffer)
           fixed == [Reset EXCEPT !.min_size_ = cell_num, !.max_size_ = cell_num,
                                  !.min_ = Ptr("tile", 0), !.max_ = Ptr("tile", 0)]
           var == [Reset EXCEPT !.min_ = Ptr("var", 0), !.max_ = Ptr("var", 0),
                                !.min_size_ = IF cell_num = 1 THEN Len(tile_var.buffer)
                                              ELSE tile.buffer[2],
                                !.max_size_ = IF cell_num = 1 THEN Len(tile_var.buffer)
                                              ELSE tile.buffer[2]]
           m == IF Len(tile.buffer) = 0 THEN Reset                   \* line 260
                ELSE IF tile_var = nullptr
                     THEN (IF tile_val = nullptr
                           THEN fixed_loop([fixed EXCEPT !.non_null_count_ = cell_num], 1)
                           ELSE nullable_loop(fixed, 0))
                     ELSE (IF tile_val = nullptr
                           THEN var_loop([var EXCEPT !.non_null_count_ = cell_num], 1)
                           ELSE var_loop(var, 1))
       IN /\ min_' = m.min_
          /\ min_size_' = m.min_size_
          /\ max_' = m.max_
          /\ max_size_' = m.max_size_
          /\ sum_' = m.sum_
          /\ non_null_count_' = m.non_null_count_
          /\ overrun' = m.overrun
    /\ last' = [NoCall EXCEPT !.op = "compute_md"]
    /\ UNCHANGED <<concurrency_level_, should_terminate_, task_stack_,
                   threads_, tp_index_, tasks, stk, prog, terminated,
                   mutexes, tile, tile_var, tile_val, past>>

\* ------------------------------------------------------ specifications
\* MetadataCompute::MetadataCompute, which leaves min_size_ and max_size_
\* unwritten.
MetadataCompute ==
    /\ min_ = nullptr
    /\ max_ = nullptr
    /\ sum_ = 0
    /\ non_null_count_ = 0
    /\ min_size_ = Indeterminate
    /\ max_size_ = Indeterminate
    /\ overrun = FALSE

\* No tile is at hand.
NoTile ==
    /\ tile = Tile(<<>>)
    /\ tile_var = nullptr
    /\ tile_val = nullptr
    /\ past = 0

\* The pools and their mutexes after construction, and the application
\* thread.
Constructed ==
    /\ concurrency_level_ = [P \in Pools |-> 0]     \* lines 45-48
    /\ should_terminate_ = [P \in Pools |-> FALSE]
    /\ task_stack_ = [P \in Pools |-> <<>>]
    /\ threads_ = [P \in Pools |-> <<>>]
    /\ tp_index_ = <<>>
    /\ tasks = <<>>
    /\ stk = [t \in {Main} |-> <<MainFrame>>]
    /\ last = NoCall
    /\ terminated = [P \in Pools |-> "no"]
    /\ task_stack_mutex_ = [P \in Pools |-> NoOwner]
    /\ tp_index_lock_ = NoOwner

InitPools == Constructed /\ MetadataCompute /\ NoTile

\* The calls of the application thread, but terminate.
Calls ==
    \/ \E c \in NextCalls : main_init(c)
    \/ \E c \in NextCalls : main_submit(c)
    \/ \E c \in NextCalls : main_wait(c)

Client == Calls \/ \E c \in NextCalls : main_terminate(c)

\* The steps of init, execute, the waits and the workers, on any thread.
Work ==
    \/ \E t \in Threads : execute_return(t)
    \/ \E t \in Threads : run_leaf(t)
    \/ \E t \in Threads : wait_return(t)
    \/ \E t \in Threads : wait_test(t)
    \/ \E t \in Threads : wait_lookup(t)
    \/ \E t \in Threads : wait_work(t)
    \/ \E t \in Threads : wait_block(t)
    \/ \E t \in Threads : worker_pop(t)
    \/ \E t \in Threads : worker_check(t)
    \/ \E t \in Threads : init_spawn(t)
    \/ \E t \in Threads : init_save(t)
    \/ \E t \in Threads : init_index(t)

\* A wait comes to an invalid task.
Invalid == \E t \in Threads : wait_invalid(t)

\* A worker wakes up without a notification.
Spurious == \E t \in Threads : worker_wake(t)

\* The steps of terminate.
Shutdown ==
    \/ \E t \in Threads : terminate_flag(t)
    \/ \E t \in Threads : terminate_unreg(t)
    \/ \E t \in Threads : terminate_join(t)
    \/ \E t \in Threads : terminate_clear(t)

\* The steps of the pool's code.
Run == Work \/ Invalid \/ Spurious \/ Shutdown

\* A spawn that fails.
SpawnFailure ==
    \/ \E t \in Threads : init_spawn_fails(t)
    \/ \E t \in Threads : init_failed(t)

\* The steps of a closure that submits children and waits on them.
Nested ==
    \/ \E t \in Threads : parent_submit(t)
    \/ \E t \in Threads : parent_wait(t)
    \/ \E t \in Threads : parent_return(t)

\* The client of Spec: one pool; init(n), possibly with a spawn that fails,
\* then up to MaxCalls calls: submits of leaf closures, waits and terminates.
LeafCalls(P) ==
    {CallSubmit(P, Leaf(TRUE)), CallSubmit(P, Leaf(FALSE)),
     CallWait(P), CallTerminate(P)}

Init ==
    /\ InitPools
    /\ \E n \in 1..MaxConc : \E failAt \in 0..(n - 1) :
          prog = [pre |-> <<CallInit("A", n, failAt)>>,
                  ops |-> LeafCalls("A"), calls |-> MaxCalls]

Next == Client \/ Run \/ SpawnFailure

Spec == Init /\ [][Next]_vars

\* The client of SpecEarly: as in Spec, but it submits a first closure
\* before it calls init, and no spawn fails.
InitEarly ==
    /\ InitPools
    /\ \E n \in 1..MaxConc :
          prog = [pre |-> <<CallSubmit("A", Leaf(TRUE)), CallInit("A", n, 0)>>,
                  ops |-> LeafCalls("A"), calls |-> MaxCalls]

NextEarly == Client \/ Run

SpecEarly == InitEarly /\ [][NextEarly]_vars

\* The children of a parent closure: up to MaxKids leaves that return Ok.
KidSeqs == {[k \in 1..m |-> TRUE] : m \in 0..MaxKids}

\* The client of SpecNested: one pool; init(n), the submit of a closure that
\* submits children to the pool and waits on them, and then up to MaxWaits
\* waits.  The scheduler is fair to every step of the pool's code but the
\* wake-up without notification, and the application may stop calling.
InitNested ==
    /\ InitPools
    /\ \E n \in 1..MaxConc : \E kids \in KidSeqs :
          prog = [pre |-> <<CallInit("A", n, 0),
                            CallSubmit("A", Parent("A", kids))>>,
                  ops |-> {CallWait("A")},
                  calls |-> MaxWaits]

NextNested == Calls \/ Work \/ Spurious \/ Nested

SpecNested == InitNested /\ [][NextNested]_vars /\ WF_vars(Work \/ Nested)

\* The client of SpecTwo: two pools; init of both, the submit to A of a
\* closure that submits a child to B and waits on it, and then up to MaxWaits
\* waits on A.
InitTwo ==
    /\ InitPools
    /\ \E nA \in 1..MaxConc : \E nB \in 1..MaxConcTwo :
          prog = [pre |-> <<CallInit("A", nA, 0), CallInit("B", nB, 0),
                            CallSubmit("A", Parent("B", <<TRUE>>))>>,
                  ops |-> {CallWait("A")},
                  calls |-> MaxWaits]

SpecTwo == InitTwo /\ [][NextNested]_vars

\* The inits that fail: init(0), and init(n) with a spawn that fails.
FailingInits(P) ==
    {CallInit(P, 0, 0)}
        \cup {CallInit(P, n, failAt) : n \in 2..MaxConc, failAt \in 1..(MaxConc - 1)}

\* The client of SpecRetry: one pool; an init that fails, then init(n)
\* without failure, the submit of a closure, and up to MaxWaits waits.
InitRetry ==
    /\ InitPools
    /\ \E c \in FailingInits("A") : \E n \in 1..MaxConc :
          /\ c.failAt < c.n \/ c.n = 0
          /\ prog = [pre |-> <<c, CallInit("A", n, 0),
                               CallSubmit("A", Leaf(FALSE))>>,
                     ops |-> {CallWait("A")},
                     calls |-> MaxWaits]

NextRetry == Calls \/ Work \/ Invalid \/ Spurious \/ Shutdown \/ SpawnFailure

SpecRetry == InitRetry /\ [][NextRetry]_vars

\* The client of SpecOverlap: two pools; init of B, the submit to B of a
\* closure that submits a child to A and waits on it, then init of A -- which
\* the closure's submit may overlap -- and then up to MaxWaits calls, each a
\* wait on B or B.terminate().
InitOverlap ==
    /\ InitPools
    /\ \E nA \in 1..MaxConc : \E nB \in 1..MaxConcTwo :
          prog = [pre |-> <<CallInit("B", nB, 0),
                            CallSubmit("B", Parent("A", <<TRUE>>)),
                            CallInit("A", nA, 0)>>,
                  ops |-> {CallWait("B"), CallTerminate("B")},
                  calls |-> MaxWaits]

NextOverlap == Client \/ Work \/ Invalid \/ Spurious \/ Shutdown \/ Nested

SpecOverlap == InitOverlap /\ [][NextOverlap]_vars

\* The client of SpecShutdown: one pool; init(n), two submits of leaf
\* closures, and then up to MaxWaits + 1 calls, each a wait or terminate.  The
\* scheduler is fair to every step of the pool's code but the wake-up without
\* notification, and the application may stop calling.
InitShutdown ==
    /\ InitPools
    /\ \E n \in 1..MaxConc :
          prog = [pre |-> <<CallInit("A", n, 0), CallSubmit("A", Leaf(TRUE)),
                            CallSubmit("A", Leaf(FALSE))>>,
                  ops |-> {CallWait("A"), CallTerminate("A")},
                  calls |-> MaxWaits + 1]

NextShutdown == Client \/ Work \/ Spurious \/ Shutdown

SpecShutdown ==
    InitShutdown /\ [][NextShutdown]_vars /\ WF_vars(Work \/ Shutdown)

\* The client of SpecRace: one pool; init(n), the submit of a closure that
\* submits a child to the pool and waits on it, and then up to MaxWaits + 1
\* calls, each a wait or terminate, which the closure's submit may overlap.
InitRace ==
    /\ InitPools
    /\ \E n \in 1..MaxConc :
          prog = [pre |-> <<CallInit("A", n, 0),
                            CallSubmit("A", Parent("A", <<TRUE>>))>>,
                  ops |-> {CallWait("A"), CallTerminate("A")},
                  calls |-> MaxWaits + 1]

NextRace == Client \/ Work \/ Invalid \/ Spurious \/ Shutdown \/ Nested

SpecRace == InitRace /\ [][NextRace]_vars

\* The client of SpecReinit: one pool; init(m), the submits of two leaves,
\* terminate, init(n) and the submit of a leaf, and then up to MaxWaits calls,
\* each a submit of a leaf or a wait.
InitReinit ==
    /\ InitPools
    /\ \E m \in 1..MaxConcTwo : \E n \in 1..MaxConc :
          prog = [pre |-> <<CallInit("A", m, 0), CallSubmit("A", Leaf(TRUE)),
                            CallSubmit("A", Leaf(FALSE)),
                            CallTerminate("A"), CallInit("A", n, 0),
                            CallSubmit("A", Leaf(TRUE))>>,
                  ops |-> {CallSubmit("A", Leaf(TRUE)), CallWait("A")},
                  calls |-> MaxWaits]

NextReinit == Client \/ Work \/ Invalid \/ Shutdown

SpecReinit == InitReinit /\ [][NextReinit]_vars

\* The client of SpecIdle: one pool; init(n) with n of 2 or more, and then up
\* to MaxWaits + 1 submits of leaf closures.  It never waits and never
\* terminates.  The scheduler is fair to every step of init and of the
\* workers but the wake-up without notification.
InitIdle ==
    /\ InitPools
    /\ \E n \in 2..MaxConc :
          prog = [pre |-> <<CallInit("A", n, 0)>>,
                  ops |-> {CallSubmit("A", Leaf(TRUE)), CallSubmit("A", Leaf(FALSE))},
                  calls |-> MaxWaits + 1]

IdleCalls ==
    \/ \E c \in NextCalls : main_init(c)
    \/ \E c \in NextCalls : main_submit(c)

IdleWork ==
    \/ \E t \in Threads : run_leaf(t)
    \/ \E t \in Threads : worker_pop(t)
    \/ \E t \in Threads : worker_check(t)
    \/ \E t \in Threads : init_spawn(t)
    \/ \E t \in Threads : init_save(t)
    \/ \E t \in Threads : init_index(t)

NextIdle == IdleCalls \/ IdleWork \/ Spurious

SpecIdle == InitIdle /\ [][NextIdle]_vars /\ WF_vars(IdleWork)

\* The tiles of SpecMd.  A fixed-size tile has up to MaxCells cells; a
\* var-size tile has up to MaxVarSize bytes of data in up to MaxCells cells,
\* none of them empty, whose offsets start at 0 and increase.  A validity
\* buffer has one byte, 0 or 1, for every cell.
Seqs(S, lo, hi) == UNION {[1..n -> S] : n \in lo..hi}

FixedTiles == Seqs(0..MaxByte, 0, MaxCells)

VarData == Seqs(0..MaxByte, 1, MaxVarSize)

Offsets(n) ==
    {o \in Seqs(0..(n - 1), 1, MaxCells) :
        /\ o[1] = 0
        /\ \A i \in 1..(Len(o) - 1) : o[i] < o[i + 1]}

Validity(n) == {nullptr} \cup {Tile(v) : v \in [1..n -> {0, 1}]}

\* A MetadataCompute after its construction and the tile it is to be given;
\* there are no pools at work.
InitMd ==
    /\ Constructed
    /\ prog = [pre |-> <<>>, ops |-> {}, calls |-> 0]
    /\ MetadataCompute
    /\ past \in 0..MaxByte
    /\ \/ /\ tile \in {Tile(b) : b \in FixedTiles}
          /\ tile_var = nullptr
       \/ /\ tile_var \in {Tile(b) : b \in VarData}
          /\ tile \in {Tile(o) : o \in Offsets(Len(tile_var.buffer))}
    /\ tile_val \in Validity(Len(tile.buffer))

NextMd == compute_md

SpecMd == InitMd /\ [][NextMd]_vars

\* The client of SpecLocks: one pool; init(n), the submit of a closure that
\* submits children to the pool and waits on them, and then up to MaxWaits
\* waits.  The mutexes are taken and released in steps of their own.
InitLocks ==
    /\ InitPools
    /\ \E n \in 1..MaxConcTwo : \E kids \in KidSeqs :
          prog = [pre |-> <<CallInit("A", n, 0),
                            CallSubmit("A", Parent("A", kids))>>,
                  ops |-> {CallWait("A")},
                  calls |-> MaxWaits]

LockedCalls ==
    \/ \E c \in NextCalls : main_init(c)
    \/ \E c \in NextCalls : main_execute(c)
    \/ \E c \in NextCalls : main_wait(c)

LockedExecute ==
    \/ \E t \in Threads : execute_level(t)
    \/ \E t \in Threads : execute_lock(t)
    \/ \E t \in Threads : execute_section(t)
    \/ \E t \in Threads : execute_call(t)
    \/ \E t \in Threads : execute_future(t)

LockedWorker ==
    \/ \E t \in Threads : worker_lock(t)
    \/ \E t \in Threads : worker_section(t)
    \/ \E t \in Threads : worker_call(t)
    \/ \E t \in Threads : worker_check(t)
    \/ \E t \in Threads : worker_spurious(t)

LockedWait ==
    \/ \E t \in Threads : wait_test(t)
    \/ \E t \in Threads : lookup_lock(t)
    \/ \E t \in Threads : lookup_return(t)
    \/ \E t \in Threads : wait_lock(t)
    \/ \E t \in Threads : wait_section(t)
    \/ \E t \in Threads : wait_call(t)
    \/ \E t \in Threads : wait_block(t)
    \/ \E t \in Threads : wait_return(t)

LockedClosures ==
    \/ \E t \in Threads : run_leaf(t)
    \/ \E t \in Threads : parent_execute(t)
    \/ \E t \in Threads : parent_wait(t)
    \/ \E t \in Threads : parent_return(t)

LockedInit ==
    \/ \E t \in Threads : init_spawn(t)
    \/ \E t \in Threads : init_save(t)
    \/ \E t \in Threads : init_index(t)

NextLocks ==
    \/ LockedCalls
    \/ LockedExecute
    \/ LockedWorker
    \/ LockedWait
    \/ LockedClosures
    \/ LockedInit

SpecLocks == InitLocks /\ [][NextLocks]_vars

\* ------------------------------------------------------------------ claims
\* The places <<thread, depth>> of all frames, and the frames of wait_all.
Frames == UNION {{<<t, k>> : k \in 1..Len(stk[t])} : t \in Threads}
FrameAt(x) == stk[x[1]][x[2]]
WaitFrames == {FrameAt(x) : x \in {y \in Frames : FrameAt(y).fn = "wait"}}

\* The frames in which the closure of task h is being run.
RunningIn(h) == {x \in Frames : FrameAt(x).fn = "task" /\ FrameAt(x).h = h}

\* The workers of pool P that have not left worker().
Workers(P) ==
    {w \in Threads : Active(w) /\ stk[w][1].fn = "worker" /\ stk[w][1].pool = P}

\* The threads registered as workers of pool P.
Registered(P) == {w \in DOMAIN tp_index_ : tp_index_[w] = P}

\* The status a wait has to give for the handle h.
Expected(h) == IF valid(h) THEN tasks[h].ret ELSE InvalidFuture

\* C1: every closure that execute accepted is run exactly once, by one
\* agent: never twice, and it is not left unexecuted -- once terminate has
\* returned on its pool (as it has when the pool is destroyed), it has run.
C1_EveryClosureRunsOnce ==
    \A h \in Handles :
        /\ Len(tasks[h].runs) <= 1
        /\ terminated[tasks[h].pool] # "no" => Len(tasks[h].runs) = 1

\* C2: no work unit is taken by two agents: a task is moved out of a stack,
\* and from Pending to Running, at most once, and its closure is never
\* running in two frames.
C2_UnitTakenOnce ==
    \A h \in Handles :
        /\ Len(tasks[h].runs) <= 1
        /\ Cardinality(RunningIn(h)) <= 1
        /\ tasks[h].state = "Pending" <=> tasks[h].runs = <<>>
        /\ \A P \in Pools :
              Cardinality({k \in DOMAIN task_stack_[P] : task_stack_[P][k] = h})
                 <= IF tasks[h].runs = <<>> THEN 1 ELSE 0

\* A worker and the helping application thread have each taken a task from
\* the stack of the same pool.
C2_Witness ==
    \E h1, h2 \in Handles :
        /\ concurrency_level_[tasks[h1].pool] > 1
        /\ tasks[h1].pool = tasks[h2].pool
        /\ tasks[h1].runs = <<Main>>
        /\ Len(tasks[h2].runs) = 1
        /\ tasks[h2].runs[1] # Main

\* C3: wait_or_work returns for a valid handle only when its task is
\* Completed, and with the status the task's closure returned.
C3_WaitReturnsClosureStatus ==
    \A f \in WaitFrames : \A k \in 1..Len(f.sts) :
        valid(f.hs[k]) =>
            /\ tasks[f.hs[k]].state = "Completed"
            /\ f.sts[k] = tasks[f.hs[k]].ret
            /\ tasks[f.hs[k]].body.kind = "leaf" => f.sts[k] = LeafStatus(f.hs[k])

\* The application thread has the status of its first handle, whose closure
\* a worker ran, after it ran the closure of its second handle itself.
C3_Witness ==
    \E f \in WaitFrames :
        /\ Len(f.hs) = 2 /\ Len(f.sts) >= 1
        /\ valid(f.hs[1]) /\ valid(f.hs[2])
        /\ Len(tasks[f.hs[1]].runs) = 1 /\ tasks[f.hs[1]].runs[1] # Main
        /\ tasks[f.hs[2]].runs = <<Main>>
        /\ concurrency_level_[f.pool] > 1
        /\ f.sts[1] = f.hs[1]

\* Whether task h is on the stack of a pool.
OnStack(h) == \E P \in Pools : h \in Range(task_stack_[P])

\* C4: on a pool of concurrency level 2 or more, a closure that submits up to
\* MaxKids children to the pool and waits on them completes, and so do its
\* children, under a fair scheduler; and while a task is not Completed, some
\* step of the pool's code can be taken.
C4_NestedCompletes ==
    /\ \A h \in 1..(MaxKids + 1) :
          (h \in Handles /\ concurrency_level_["A"] >= 2)
              ~> (h \in Handles /\ done(h))
    /\ []((concurrency_level_["A"] >= 2 /\ \E h \in Handles : ~done(h))
              => ENABLED (Work \/ Nested))

\* On a pool with workers, a closure that submitted MaxKids children and
\* waited on them is Completed: a worker ran it, and ran one of its children
\* while it waited.
C4_Witness ==
    \E h, k \in Handles :
        /\ concurrency_level_["A"] >= 2
        /\ tasks[h].body.kind = "parent"
        /\ Len(tasks[h].body.kids) = MaxKids
        /\ done(h)
        /\ tasks[k].body.kind = "leaf"
        /\ tasks[h].runs # <<Main>>
        /\ tasks[k].runs = tasks[h].runs

\* C5: when a waiter has left the loop of wait_or_work and blocks on a task
\* that is not Completed, the task is on no stack and is Running -- whatever
\* the waiter, a worker of A that waits on a task of B too.
C5_BlockedWaiterUnitTaken ==
    \A f \in WaitFrames :
        (f.pc = "block" /\ ~done(f.hs[f.i])) =>
            /\ ~OnStack(f.hs[f.i])
            /\ tasks[f.hs[f.i]].state = "Running"

\* C5, for the waiters whose host pool is the pool of the task: when a waiter
\* has left the loop of wait_or_work and blocks on a task that is not
\* Completed, and the pool whose stack it saw empty is the pool the task was
\* submitted to, the task is on no stack and is Running.
C5_BlockedWaiterUnitTakenOnHost ==
    \A f \in WaitFrames :
        (f.pc = "block" /\ ~done(f.hs[f.i]) /\ f.tp = tasks[f.hs[f.i]].pool) =>
            /\ ~OnStack(f.hs[f.i])
            /\ tasks[f.hs[f.i]].state = "Running"

\* A closure submitted to A blocks on its child, a task of B, after it saw
\* the stack of B empty, while a worker of B runs the child.
C5_Witness ==
    \E f \in WaitFrames :
        /\ f.pc = "block"
        /\ ~done(f.hs[f.i])
        /\ tasks[f.hs[f.i]].pool = "B"
        /\ f.tp = "B"
        /\ tasks[f.hs[f.i]].state = "Running"
        /\ tasks[f.hs[f.i]].runs # <<Main>>

\* C6: wait_all_status returns one status per handle, in the order of the
\* handles: the i-th is the status of the closure of the i-th valid handle.
C6_StatusesInInputOrder ==
    last.op = "wait_all" =>
        /\ Len(last.sts) = Len(last.hs)
        /\ \A i \in 1..Len(last.hs) :
              valid(last.hs[i]) =>
                  /\ last.sts[i] = tasks[last.hs[i]].ret
                  /\ last.sts[i] # NoStatus

\* A wait has returned the statuses Ok and error of two tasks that did not
\* complete in the order of the vector.
C6_Witness ==
    /\ last.op = "wait_all"
    /\ last.ooo
    /\ \E i, j \in 1..Len(last.hs) :
          /\ i < j
          /\ valid(last.hs[i]) /\ valid(last.hs[j])
          /\ last.sts[i] # last.sts[j]

\* C7: wait_all returns only when every valid handle of its vector is
\* Completed, and returns the first status in the order of the vector that
\* is not Ok, or Ok when all are.
C7_WaitAllFirstError ==
    last.op = "wait_all" =>
        LET n == Len(last.hs)
            E == [i \in 1..n |-> Expected(last.hs[i])]
        IN /\ \A i \in 1..n : valid(last.hs[i]) => done(last.hs[i])
           /\ (\A i \in 1..n : E[i] = Ok) => last.ret = Ok
           /\ \A i \in 1..n :
                 (E[i] # Ok /\ \A k \in 1..(i - 1) : E[k] = Ok) => last.ret = E[i]

\* wait_all has returned the first of the two different errors of two tasks,
\* both Completed.
C7_Witness ==
    /\ last.op = "wait_all"
    /\ \E i, j \in 1..Len(last.hs) :
          /\ i < j
          /\ valid(last.hs[i]) /\ valid(last.hs[j])
          /\ last.sts[i] # Ok /\ last.sts[j] # Ok /\ last.sts[i] # last.sts[j]
          /\ last.ret = last.sts[i]

\* C8: once terminate has returned on a pool, and until init is called on it
\* again, the pool has no thread in threads_, none of its workers is running
\* and the registry has no entry for it; and every later execute on the pool,
\* also after another init, returns an invalid handle (it creates no task).
C8_AfterTerminate ==
    /\ [](\A P \in Pools :
             terminated[P] = "yes" =>
                 /\ threads_[P] = <<>>
                 /\ Workers(P) = {}
                 /\ Registered(P) = {})
    /\ [][\A P \in Pools :
             terminated[P] # "no" =>
                 \A h \in 1..Len(tasks') : h > Len(tasks) => tasks'[h].pool # P]_vars

\* terminate has returned on a pool that had workers and tasks, and the
\* application thread got an invalid handle from a later execute.
C8_Witness ==
    /\ terminated["A"] = "yes"
    /\ concurrency_level_["A"] > 1
    /\ TopIs(Main, "main")
    /\ \E i, j \in 1..Len(Top(stk[Main]).hs) :
          /\ i < j
          /\ valid(Top(stk[Main]).hs[i])
          /\ ~valid(Top(stk[Main]).hs[j])

\* C9: when terminate has returned on a pool, the pool's stack is empty and
\* every task that was pushed on it is Completed.
C9_TerminateDrains ==
    \A P \in Pools :
        terminated[P] = "yes" =>
            /\ task_stack_[P] = <<>>
            /\ \A h \in Handles : tasks[h].pool = P => done(h)

\* The application thread makes a call in this step, and the call is c.
Calling(c) ==
    /\ AtCall(c)
    /\ prog' # prog
    /\ LET fn == Top(stk'[Main]).fn IN
         CASE c.op = "init" -> fn = "init" \/ last' # last
           [] c.op = "submit" -> fn \in {"main", "task"} /\ last' = last
           [] c.op = "wait_all" -> fn = "wait"
           [] c.op = "terminate" -> fn = "terminate"

\* C11: an execute on a pool that is not initialized (level 0) or has been
\* terminated gives an invalid handle and changes nothing else: no task is
\* created or run, and the stack, the threads, the level, the flag and the
\* registry are as before.
C11_RefusedSubmitChangesNothing ==
    [][\A c \in NextCalls :
          (/\ Calling(c)
           /\ c.op = "submit"
           /\ concurrency_level_[c.pool] = 0 \/ should_terminate_[c.pool])
          => /\ stk' = [stk EXCEPT ![Main] =
                           SetTop(@, GiveHandle(Top(@), NoHandle))]
             /\ UNCHANGED <<concurrency_level_, should_terminate_, task_stack_,
                            threads_, tp_index_, tasks>>]_vars

\* The application thread has an invalid handle from an execute before
\* init, a valid one, and an invalid one from an execute after terminate.
C11_Witness ==
    /\ TopIs(Main, "main")
    /\ terminated["A"] = "yes"
    /\ concurrency_level_["A"] > 1
    /\ LET hs == Top(stk[Main]).hs IN
         /\ Len(hs) = 3
         /\ ~valid(hs[1]) /\ valid(hs[2]) /\ ~valid(hs[3])

\* The frames that keep handles: the application thread's and the closures'.
Holders == {x \in Frames : FrameAt(x).fn \in {"main", "task"}}

\* C12: on a pool of level 1 nothing is ever on the task stack, and every
\* handle an execute has returned, to the application thread or to a closure
\* that is running, is of a task that is Completed with its closure's status
\* and was run by the thread that called execute.
C12_LevelOneRunsInline ==
    /\ \A P \in Pools : concurrency_level_[P] = 1 => task_stack_[P] = <<>>
    /\ \A x \in Holders : \A k \in 1..Len(FrameAt(x).hs) :
          LET h == FrameAt(x).hs[k] IN
          (valid(h) /\ concurrency_level_[tasks[h].pool] = 1) =>
              /\ done(h)
              /\ tasks[h].runs = <<x[1]>>
              /\ get(h) = tasks[h].ret
              /\ tasks[h].body.kind = "leaf" => get(h) = LeafStatus(h)

\* On a pool of level 1 a closure that the application thread runs inside
\* execute has the handle of the child it submitted, and the child is
\* Completed.
C12_Witness ==
    \E x \in Holders :
        /\ x[1] = Main
        /\ FrameAt(x).fn = "task"
        /\ FrameAt(x).hs # <<>>
        /\ concurrency_level_["A"] = 1
        /\ done(FrameAt(x).hs[1])
        /\ tasks[FrameAt(x).hs[1]].runs = <<Main>>
        /\ ~done(FrameAt(x).h)

\* C13: init(0) on a fresh pool returns the error of a concurrency level of
\* 0 and changes nothing: no thread is spawned, nothing is registered, and the
\* level is 0 as before.
C13_InitZeroRefused ==
    [][\A c \in NextCalls :
          (Calling(c) /\ c.op = "init" /\ c.n = 0 /\ terminated[c.pool] = "no")
          => /\ last' = [NoCall EXCEPT !.op = "init", !.pool = c.pool,
                                       !.ret = ZeroLevelError]
             /\ UNCHANGED <<concurrency_level_, should_terminate_, task_stack_,
                            threads_, tp_index_, tasks, stk>>
             /\ concurrency_level_'[c.pool] = 0
             /\ threads_'[c.pool] = <<>>
             /\ DOMAIN stk' = {Main}
             /\ tp_index_' = <<>>]_vars

\* init(0) has returned its error on a pool that has no thread.
C13_Witness ==
    /\ last.op = "init"
    /\ last.ret = ZeroLevelError
    /\ concurrency_level_["A"] = 0
    /\ Threads = {Main}
    /\ TopIs(Main, "main")

\* Thread t returns from init in this step without an error.
InitReturns(t) ==
    /\ TopIs(t, "init")
    /\ Top(stk[t]).pc = "index"
    /\ stk'[t] # stk[t]

\* C14: when init(n) returns without an error on a fresh pool, it returns
\* Ok, the level of the pool is n, the pool has exactly n - 1 threads, each
\* of them in worker() of the pool, and the registry maps exactly these
\* threads to the pool.
C14_InitSpawnsAndRegisters ==
    [][\A t \in Threads :
          (InitReturns(t) /\ terminated[Top(stk[t]).pool] = "no") =>
              LET P == Top(stk[t]).pool
                  n == Top(stk[t]).n
              IN /\ last'.op = "init" /\ last'.ret = Ok
                 /\ concurrency_level_'[P] = n
                 /\ Len(threads_'[P]) = n - 1
                 /\ Cardinality(Range(threads_'[P])) = n - 1
                 /\ \A w \in Range(threads_'[P]) :
                       /\ w # t
                       /\ stk'[w] # <<>>
                       /\ stk'[w][1] \in {WorkerFrame(P), [WorkerFrame(P) EXCEPT !.pc = "sleep"]}
                 /\ {w \in DOMAIN tp_index_' : tp_index_'[w] = P}
                       = Range(threads_'[P])]_vars

\* init(MaxConc) has returned Ok, and MaxConc - 1 threads are registered.
C14_Witness ==
    /\ last.op = "init"
    /\ last.ret = Ok
    /\ concurrency_level_["A"] = MaxConc
    /\ Cardinality(Registered("A")) = MaxConc - 1
    /\ Cardinality(Workers("A")) = MaxConc - 1

\* Thread t returns from init in this step after a spawn has failed.
InitFails(t) ==
    /\ TopIs(t, "init")
    /\ Top(stk[t]).pc = "failed"
    /\ stk'[t] # stk[t]

\* C15: when a spawn fails in the first init(n) of a pool, init returns the
\* error of that spawn; no spawn was tried after it; every thread spawned
\* before it has left worker(); threads_ is empty, the level is 0 and the
\* registry has no entry for the pool.
C15_SpawnFailureJoinsAll ==
    [][\A t \in Threads :
          InitFails(t) =>
              LET f == Top(stk[t]) IN
              /\ last'.op = "init" /\ last'.ret = SpawnError
              /\ f.i = f.failAt - 1
              /\ Cardinality(DOMAIN stk' \ {t}) = f.failAt - 1
              /\ \A w \in DOMAIN stk' \ {t} : stk'[w] = <<>>
              /\ threads_'[f.pool] = <<>>
              /\ concurrency_level_'[f.pool] = 0
              /\ {w \in DOMAIN tp_index_' : tp_index_'[w] = f.pool} = {}]_vars

\* init has returned the error of its second spawn, after the thread of the
\* first spawn left worker().
C15_Witness ==
    /\ last.op = "init"
    /\ last.ret = SpawnError
    /\ Cardinality(Threads) >= 2
    /\ \A w \in Threads \ {Main} : stk[w] = <<>>
    /\ threads_["A"] = <<>>
    /\ TopIs(Main, "main")

\* C16: when an init that fails has returned, the pool is as it was before
\* the call -- here fresh: level 0, no thread, empty stack, flag not set,
\* nothing registered -- and after a later init without failure an execute
\* gives a valid handle, as on a fresh pool.
C16_FailedInitRestoresState ==
    /\ (/\ last.op = "init" /\ last.ret # Ok
        /\ TopIs(Main, "main") /\ Len(prog.pre) = 2)
          => /\ concurrency_level_["A"] = 0
             /\ threads_["A"] = <<>>
             /\ task_stack_["A"] = <<>>
             /\ ~should_terminate_["A"]
             /\ Registered("A") = {}
    /\ (prog.pre = <<>> /\ stk[Main][1].hs # <<>>) => valid(stk[Main][1].hs[1])

\* Thread t is in a terminate of a pool on which terminate has returned
\* before.
TerminatesAgain(t) ==
    /\ TopIs(t, "terminate")
    /\ terminated[Top(stk[t]).pool] = "yes"

\* C17: a terminate of a pool on which terminate has returned changes
\* nothing -- the level, the flag, the stack, threads_, the registry, the
\* tasks and the other threads are after each of its steps as before -- and
\* waits for nothing: it has no thread to join.
C17_TerminateIdempotent ==
    /\ [](\A t \in Threads :
             TerminatesAgain(t) => threads_[Top(stk[t]).pool] = <<>>)
    /\ [][\A t \in Threads :
             (TerminatesAgain(t) /\ stk'[t] # stk[t]) =>
                 /\ UNCHANGED <<concurrency_level_, should_terminate_,
                                task_stack_, threads_, tp_index_, tasks>>
                 /\ \A u \in Threads \ {t} : stk'[u] = stk[u]]_vars

\* The application thread is at the end of a second terminate of a pool that
\* had workers and tasks.
C17_Witness ==
    /\ TerminatesAgain(Main)
    /\ Top(stk[Main]).pc = "join"
    /\ Len(stk[Main]) = 2
    /\ concurrency_level_["A"] > 1
    /\ tasks # <<>>

\* The stack of pool P loses, in this step, exactly its most recently pushed
\* task, and that task is the one whose closure the step starts.
PopsNewest(P) ==
    LET s == task_stack_[P] IN
      /\ s # <<>>
      /\ task_stack_'[P] = SubSeq(s, 1, Len(s) - 1)
      /\ \E t \in Threads :
            /\ stk'[t] # <<>>
            /\ Len(stk'[t]) = Len(stk[t]) + 1
            /\ Top(stk'[t]).fn = "task"
            /\ Top(stk'[t]).h = s[Len(s)]
            /\ tasks[s[Len(s)]].state = "Pending"
            /\ tasks'[s[Len(s)]].state = "Running"

\* C18: a stack holds its tasks in the order they were pushed (handles are
\* numbered in that order), every step that changes a stack either pushes one
\* task on its end or pops the most recently pushed task that is still on
\* it, by a worker or by a helping waiter, and the popped task is the one the
\* popping thread runs; so a thread that submitted t1 then t2 and waits for
\* t1 while no worker has taken either runs t2 first.
C18_StrictLifo ==
    /\ [](\A P \in Pools : \A j, k \in DOMAIN task_stack_[P] :
             j < k => task_stack_[P][j] < task_stack_[P][k])
    /\ [][\A P \in Pools :
             task_stack_'[P] # task_stack_[P] =>
                 \/ \E h \in DOMAIN tasks' : task_stack_'[P] = Append(task_stack_[P], h)
                 \/ PopsNewest(P)]_vars
    /\ [](\A x \in Frames :
             LET f == FrameAt(x) IN
               (/\ f.fn = "wait" /\ f.hs = <<1, 2>> /\ f.i = 1
                /\ x[2] < Len(stk[x[1]])
                /\ tasks[1].runs = <<>>) =>
                   /\ stk[x[1]][x[2] + 1].fn = "task"
                   /\ stk[x[1]][x[2] + 1].h = 2)

\* The application thread submitted tasks 1 and 2, no worker took either, and
\* in its wait for task 1 it is running task 2 while task 1 is on the stack.
C18_Witness ==
    /\ Len(stk[Main]) = 3
    /\ stk[Main][2].fn = "wait"
    /\ stk[Main][2].hs = <<1, 2>>
    /\ stk[Main][2].i = 1
    /\ stk[Main][3].fn = "task"
    /\ stk[Main][3].h = 2
    /\ task_stack_["A"] = <<1>>
    /\ concurrency_level_["A"] > 1

\* How far a task has come.
Rank(tk) == CASE tk.state = "Pending" -> 0
              [] tk.state = "Running" -> 1
              [] tk.state = "Completed" -> 2

\* C19: a task's state only moves forward, one stage at a time, from Pending
\* to Running to Completed; it has a result exactly when it is Completed, and
\* a Completed task never changes again; so a wait that follows a wait on the
\* same handles returns the same statuses and the same Status.
C19_HandleStateMonotone ==
    /\ [](\A h \in Handles :
             tasks[h].result # NoStatus <=> tasks[h].state = "Completed")
    /\ [][/\ \A h \in Handles :
                 /\ h \in DOMAIN tasks'
                 /\ Rank(tasks'[h]) \in {Rank(tasks[h]), Rank(tasks[h]) + 1}
                 /\ tasks[h].state = "Completed" => tasks'[h] = tasks[h]
           /\ (/\ last.op = "wait_all" /\ last'.op = "wait_all"
               /\ last' # last
               /\ last'.hs = last.hs) =>
                   /\ last'.sts = last.sts
                   /\ last'.ret = last.ret]_vars

\* The application thread waited on a task that failed, and has now, in a
\* second wait on the same handles, the same statuses to return.
C19_Witness ==
    /\ TopIs(Main, "wait")
    /\ last.op = "wait_all"
    /\ LET f == Top(stk[Main]) IN
         /\ f.hs = last.hs
         /\ f.i > Len(f.hs)
         /\ f.sts = last.sts
         /\ \E k \in DOMAIN f.hs :
               valid(f.hs[k]) /\ tasks[f.hs[k]].result = f.sts[k] /\ f.sts[k] # Ok

\* The closure of task h, run by thread t, ends in this step.
Completes(h, t) ==
    /\ TopIs(t, "task")
    /\ Top(stk[t]).h = h
    /\ tasks[h].state = "Running"
    /\ tasks'[h].state = "Completed"

ForeignWaits ==
    {x \in Frames : /\ FrameAt(x).fn = "wait"
                    /\ stk[x[1]][1].fn = "worker"
                    /\ FrameAt(x).pool # stk[x[1]][1].pool}

\* C21: a worker of one pool that waits on a handle of another pool pops and
\* runs only tasks of its own pool's stack: the stack it locks is its own
\* pool's, and the task it runs inside the wait was pushed on its own pool.
C21_WorkerHelpsOwnPool ==
    \A x \in ForeignWaits :
        LET f == FrameAt(x)
            own == stk[x[1]][1].pool
        IN /\ f.pc = "lock" => f.tp = own
           /\ x[2] < Len(stk[x[1]]) => tasks[stk[x[1]][x[2] + 1].h].pool = own

\* C22: a worker is registered before it runs a task: while terminate has
\* not been called on its pool, a worker thread that is running a task is in
\* the registry under its pool, so that a lookup made from inside the task,
\* on whatever pool, gives the worker's pool.
C22_RegisteredBeforeRunning ==
    \A w \in Threads :
        (/\ Active(w)
         /\ stk[w][1].fn = "worker"
         /\ Len(stk[w]) > 1
         /\ ~should_terminate_[stk[w][1].pool]) =>
            \A this \in Pools : lookup_tp(w, this) = stk[w][1].pool

\* The frames of the waits of the threads that are no pool's worker.
ClientWaits ==
    {x \in Frames : FrameAt(x).fn = "wait" /\ stk[x[1]][1].fn = "main"}

\* C23: a thread that is not a worker is never in the registry, and when it
\* waits on pool P for a handle of P it helps from P's stack only: the stack
\* it locks is P's, and the task it runs inside the wait was pushed on P.
C23_ClientHelpsWaitedPool ==
    /\ \A t \in Threads :
          (stk[t] # <<>> /\ stk[t][1].fn = "main") => t \notin DOMAIN tp_index_
    /\ \A x \in ClientWaits :
          LET f == FrameAt(x) IN
            /\ \A k \in DOMAIN f.hs : valid(f.hs[k]) => tasks[f.hs[k]].pool = f.pool
            /\ f.pc = "lock" => f.tp = f.pool
            /\ x[2] < Len(stk[x[1]]) =>
                  tasks[stk[x[1]][x[2] + 1].h].pool = f.pool

\* The application thread waits on A, took from A's stack the closure that
\* submits to B, and in that closure's wait on B it took the child from B's
\* stack, while both pools have registered workers.
C23_Witness ==
    /\ Len(stk[Main]) = 5
    /\ stk[Main][2].fn = "wait" /\ stk[Main][2].pool = "A"
    /\ stk[Main][3].fn = "task" /\ tasks[stk[Main][3].h].pool = "A"
    /\ stk[Main][4].fn = "wait" /\ stk[Main][4].pool = "B"
    /\ stk[Main][5].fn = "task" /\ tasks[stk[Main][5].h].pool = "B"
    /\ Registered("A") # {} /\ Registered("B") # {}

\* C24: a worker leaves its loop only when should_terminate_ is set and the
\* stack of its pool is empty: while a thread of threads_ that has left
\* worker() is not yet removed from the list, the flag is set and the stack
\* is empty (nothing is pushed once the flag is set).
C24_WorkerExitsWhenDrained ==
    \A P \in Pools : \A k \in DOMAIN threads_[P] :
        Exited(threads_[P][k]) =>
            /\ should_terminate_[P]
            /\ task_stack_[P] = <<>>

\* The frames of the calls of terminate that are under way.
TerminateFrames == {x \in Frames : FrameAt(x).fn = "terminate"}

\* C25: terminate goes in a fixed order.  Before the flag is set nothing is
\* unregistered and nothing joined; once it is set no worker is left blocked
\* in the wait (all were notified with the flag); the pool's threads are out
\* of the registry before the first join; and threads_ holds every thread the
\* pool created until terminate returns.
C25_TerminateOrder ==
    \A x \in TerminateFrames :
        LET f == FrameAt(x)
            P == f.pool
        IN /\ f.pc = "flag" =>
                 /\ f.j = 1
                 /\ (concurrency_level_[P] > 0 /\ terminated[P] = "no") =>
                        Registered(P) = Range(threads_[P])
           /\ f.pc = "unreg" =>
                 /\ f.j = 1
                 /\ should_terminate_[P]
                 /\ Sleepers(P) = {}
           /\ f.pc = "join" =>
                 /\ should_terminate_[P]
                 /\ Sleepers(P) = {}
                 /\ Registered(P) = {}
                 /\ \A w \in Range(threads_[P]) : w \notin DOMAIN tp_index_
           /\ terminated[P] = "no" => Range(threads_[P]) = Threads \ {Main}

\* terminate has set the flag and emptied the registry of a pool with two
\* workers, and is at its first join, of a worker that is still running.
C25_Witness ==
    \E x \in TerminateFrames :
        LET f == FrameAt(x) IN
          /\ f.pc = "join"
          /\ f.j = 1
          /\ Len(threads_[f.pool]) = 2
          /\ ~Exited(threads_[f.pool][1])
          /\ concurrency_level_[f.pool] = 3

\* C26: every entry of the registry maps a thread that was spawned as a
\* worker and is not yet joined -- a thread of threads_ of the pool it maps
\* to, which started in worker() of that pool -- to a pool that has been
\* initialized, on which terminate has never returned and is not past its
\* remove_tp_index; no entry is for the application thread; and the threads_
\* lists of two pools share no thread, so that an id has one pool.
C26_RegistryEntriesLive ==
    /\ \A w \in DOMAIN tp_index_ :
          LET P == tp_index_[w] IN
            /\ w \in Threads \ {Main}
            /\ w \in Range(threads_[P])
            /\ Active(w) => stk[w][1] \in {WorkerFrame(P)} \cup
                                {[WorkerFrame(P) EXCEPT !.pc = pc] :
                                     pc \in {"sleep", "check"}}
            /\ concurrency_level_[P] > 0
            /\ terminated[P] = "no"
            /\ \A x \in TerminateFrames :
                  FrameAt(x).pool = P => FrameAt(x).pc \in {"flag", "unreg"}
    /\ \A P, Q \in Pools :
          P # Q => Range(threads_[P]) \cap Range(threads_[Q]) = {}

\* C27: a pool whose concurrency level is n > 0 has n - 1 threads in threads_.
C27_WorkersAreLevelLessOne ==
    \A P \in Pools :
        concurrency_level_[P] > 0 =>
            Len(threads_[P]) = concurrency_level_[P] - 1

\* Thread t, in a wait, takes a task from a stack in this step.
WaiterPops(t) ==
    /\ TopIs(t, "wait")
    /\ Len(stk'[t]) = Len(stk[t]) + 1
    /\ Top(stk'[t]).fn = "task"

\* C28: a waiter tests done before every pop.  A step of a wait that finds
\* its handle Completed at the test goes to task.wait() and changes no stack;
\* from there the wait only takes the result and goes to its next handle, it
\* pops nothing; and a step that pops is made after a test that found the
\* handle not done (from the locked stack, never from the test or the block)
\* and leaves the wait at the test again.
C28_HelpsOnlyWhileNotDone ==
    [][\A t \in Threads :
         (TopIs(t, "wait") /\ stk'[t] # stk[t]) =>
            LET f == Top(stk[t]) IN
              /\ (f.pc = "next" /\ f.i <= Len(f.hs) /\ valid(f.hs[f.i])
                                /\ done(f.hs[f.i])) =>
                     /\ stk'[t] = SetTop(stk[t], [f EXCEPT !.pc = "block"])
                     /\ UNCHANGED <<task_stack_, tasks>>
              /\ f.pc = "block" =>
                     /\ done(f.hs[f.i])
                     /\ Len(stk'[t]) = Len(stk[t])
                     /\ Top(stk'[t]).i = f.i + 1
                     /\ UNCHANGED <<task_stack_, tasks>>
              /\ f.pc \in {"next", "lookup", "block"} => ~WaiterPops(t)
              /\ WaiterPops(t) =>
                     /\ f.pc = "lock"
                     /\ stk'[t][Len(stk[t])] = [f EXCEPT !.pc = "next"]
                     /\ task_stack_[f.tp] # <<>>]_vars

\* The application thread has found its handle Completed and is at
\* task.wait() while the stack of the pool holds a task that nobody has taken.
C28_Witness ==
    /\ TopIs(Main, "wait")
    /\ LET f == Top(stk[Main]) IN
         /\ f.pc = "block"
         /\ done(f.hs[f.i])
         /\ task_stack_[f.pool] # <<>>
         /\ f.i < Len(f.hs)

\* C29: terminate always returns, under a fair scheduler and with closures
\* that return: a call of terminate that is under way leads to its return,
\* and once should_terminate_ is set every worker -- blocked in the wait,
\* woken, or running a closure -- leaves worker().
C29_TerminateReturns ==
    /\ (TerminateFrames # {}) ~> (TerminateFrames = {} /\ last.op = "terminate")
    /\ should_terminate_["A"] ~> (\A w \in Threads \ {Main} : Exited(w))

\* terminate is at its first join; one worker was blocked in the wait and has
\* been woken by the broadcast, another is running a closure.
C29_Witness ==
    /\ \E x \in TerminateFrames : FrameAt(x).pc = "join" /\ FrameAt(x).j = 1
    /\ \E w1, w2 \in Range(threads_["A"]) :
          /\ TopIs(w1, "worker") /\ Top(stk[w1]).pc = "lock"
          /\ TopIs(w2, "task")
    /\ task_stack_["A"] = <<>>

\* Worker w, in its loop with no task running, takes a step of its own in
\* this step (to be notified is a step of the notifier).
WorkerSteps(w) ==
    /\ TopIs(w, "worker")
    /\ Len(stk[w]) = 1
    /\ stk'[w] # stk[w]
    /\ ~(Top(stk[w]).pc = "sleep" /\ stk'[w] = Woken(stk[w]))

\* C30: a worker that was woken, with or without a notification, tests the
\* predicate with the mutex held.  It leaves the wait only if the flag is set
\* or the stack is not empty, and otherwise blocks again; it takes a task
\* only from a stack that is not empty, and the task it calls is the valid,
\* Pending task it took; and it leaves worker() only with the flag set.
C30_WorkerRechecksPredicate ==
    [][\A w \in Threads :
         WorkerSteps(w) =>
            LET f == Top(stk[w])
                P == f.pool
            IN /\ f.pc = "sleep" => WorkerMayGo(P)
               /\ (f.pc = "lock" /\ ~WorkerMayGo(P)) =>
                      /\ stk'[w] = SetTop(stk[w], [f EXCEPT !.pc = "sleep"])
                      /\ UNCHANGED <<task_stack_, tasks>>
               /\ Len(stk'[w]) > 1 =>
                      /\ task_stack_[P] # <<>>
                      /\ Top(stk'[w]) = TaskFrame(top(task_stack_[P]))
                      /\ valid(Top(stk'[w]).h)
                      /\ tasks[Top(stk'[w]).h].state = "Pending"
               /\ (f.pc \in {"sleep", "lock"} /\ task_stack_[P] = <<>>) =>
                      /\ Len(stk'[w]) = 1
                      /\ UNCHANGED <<task_stack_, tasks>>
               /\ stk'[w] = <<>> => f.pc = "check" /\ should_terminate_[P]]_vars

\* A worker that found the stack empty and the flag not set is blocked in the
\* wait again after it had run a task.
C30_Witness ==
    \E w \in Threads \ {Main} : \E h \in Handles :
        /\ TopIs(w, "worker")
        /\ Top(stk[w]).pc = "sleep"
        /\ tasks[h].runs = <<w>>
        /\ done(h)
        /\ ~WorkerMayGo(Top(stk[w]).pool)

\* C31: a submit that races with terminate sees the flag under the mutex:
\* in a step taken with should_terminate_ set, no task is created for the
\* pool and its stack does not grow (it stays or loses its top), so a task is
\* on the stack only if it was pushed before the flag was set, and a submit
\* that comes after gets an invalid handle.
C31_NoPushAfterFlag ==
    [][\A P \in Pools :
         should_terminate_[P] =>
            /\ \/ task_stack_'[P] = task_stack_[P]
               \/ task_stack_[P] # <<>> /\ task_stack_'[P] = pop(task_stack_[P])
            /\ \A h \in DOMAIN tasks' : tasks'[h].pool = P => h \in DOMAIN tasks
            /\ \A x \in Frames :
                  (/\ FrameAt(x).fn = "task"
                   /\ tasks[FrameAt(x).h].body.kind = "parent"
                   /\ tasks[FrameAt(x).h].body.q = P
                   /\ Len(stk'[x[1]]) >= x[2]
                   /\ Len(stk'[x[1]][x[2]].hs) > Len(FrameAt(x).hs)) =>
                       stk'[x[1]][x[2]].hs = Append(FrameAt(x).hs, NoHandle)]_vars

\* While terminate is waiting in a join for the worker, the closure the
\* worker runs has called execute and got an invalid handle.
C31_Witness ==
    /\ \E x \in TerminateFrames : FrameAt(x).pc = "join"
    /\ \E x \in Frames :
          /\ x[1] # Main
          /\ FrameAt(x).fn = "task"
          /\ FrameAt(x).hs = <<NoHandle>>

\* C33: the stack of a pool holds exactly the accepted tasks of that pool
\* whose handle is still Pending: every element is a valid handle of a
\* Pending task of the pool, a Pending task is on the stack of its pool once,
\* and a Running or Completed task is on no stack.
C33_StackIsPendingUnits ==
    /\ \A P \in Pools : \A k \in DOMAIN task_stack_[P] :
          LET h == task_stack_[P][k] IN
             /\ valid(h)
             /\ h \in Handles
             /\ tasks[h].pool = P
             /\ tasks[h].state = "Pending"
    /\ \A h \in Handles : \A P \in Pools :
          Cardinality({k \in DOMAIN task_stack_[P] : task_stack_[P][k] = h})
             = IF tasks[h].state = "Pending" /\ tasks[h].pool = P THEN 1 ELSE 0

\* A stack holds two Pending tasks while a third task of the pool is Running
\* or Completed.
C33_Witness ==
    \E P \in Pools :
        /\ Len(task_stack_[P]) = 2
        /\ \E h \in Handles : tasks[h].pool = P /\ tasks[h].state # "Pending"

\* C34: termination is permanent.  No step clears should_terminate_ and no
\* step of terminate writes the level; an init(n) called after terminate
\* returns Ok with the level n and the flag still set; and every execute the
\* application calls after that gets the invalid handle and creates no task,
\* so that its closure never runs.
C34_TerminationPermanent ==
    [][/\ \A P \in Pools : should_terminate_[P] => should_terminate_'[P]
       /\ \A t \in Threads :
             (TopIs(t, "terminate") /\ stk'[t] # stk[t]) =>
                 concurrency_level_' = concurrency_level_
       /\ \A t \in Threads :
             (/\ TopIs(t, "init")
              /\ terminated[Top(stk[t]).pool] = "reinit"
              /\ Len(stk'[t]) < Len(stk[t])) =>
                 /\ last'.op = "init" /\ last'.ret = Ok
                 /\ concurrency_level_'[Top(stk[t]).pool] = Top(stk[t]).n
                 /\ should_terminate_'[Top(stk[t]).pool]
       /\ (/\ TopIs(Main, "main")
           /\ terminated["A"] # "no"
           /\ Len(stk'[Main][1].hs) > Len(stk[Main][1].hs)) =>
                 /\ stk'[Main] = <<GiveHandle(stk[Main][1], NoHandle)>>
                 /\ tasks' = tasks
                 /\ task_stack_' = task_stack_]_vars

\* After terminate an init has returned Ok on a pool whose level is now
\* above 1, and the application got an invalid handle from an execute it
\* called after it.
C34_Witness ==
    /\ terminated["A"] = "reinit"
    /\ last.op = "init" /\ last.ret = Ok
    /\ concurrency_level_["A"] > 1
    /\ should_terminate_["A"]
    /\ TopIs(Main, "main")
    /\ Len(stk[Main][1].hs) >= 3
    /\ valid(stk[Main][1].hs[2])
    /\ stk[Main][1].hs[3] = NoHandle

\* C35: no wake-up is lost.  On a pool of level 2 or more on which nobody
\* waits and terminate is not called, every task that execute pushed is in
\* the end taken from the stack and run to completion by a worker, under a
\* scheduler fair to the workers; and while a task is on the stack, some
\* worker of the pool is not blocked in the wait.
C35_NoLostWakeup ==
    /\ \A h \in 1..(MaxWaits + 1) :
          (h \in Handles)
              ~> (h \in Handles /\ done(h) /\ tasks[h].runs[1] \in Workers("A"))
    /\ [](\A P \in Pools :
             task_stack_[P] # <<>> => Workers(P) \ Sleepers(P) # {})

\* The only worker of the pool has run two tasks to completion and is
\* blocked in the wait again.
C35_Witness ==
    /\ concurrency_level_["A"] = 2
    /\ Len(tasks) = 2
    /\ \A h \in Handles : done(h) /\ tasks[h].runs[1] \in Workers("A")
    /\ Sleepers("A") # {}

\* compute_md has returned.
Computed == last.op = "compute_md"

\* The sum of the cells of a buffer.
RECURSIVE SumOf(_)
SumOf(b) == IF b = <<>> THEN 0 ELSE b[1] + SumOf(Tail(b))

\* The cells of the tile whose validity byte is not 0.
NonNull == {i \in 1..Len(tile.buffer) : tile_val.buffer[i] # 0}

\* C36: after compute_md on a fixed-size tile that is not empty and not
\* nullable, sum is the sum of all the cells, the first included, and the
\* non-null count is the number of cells.
C36_SumOfAllCells ==
    (Computed /\ tile.buffer # <<>> /\ tile_var = nullptr /\ tile_val = nullptr) =>
        /\ sum_ = SumOf(tile.buffer)
        /\ non_null_count_ = Len(tile.buffer)

\* C37: after compute_md on a fixed-size nullable tile that is not empty, no
\* cell outside the buffer has been read, and when some cell is not null min
\* and max point to the smallest and the largest of the cells whose own
\* validity byte is not 0.
C37_NullableMinMax ==
    (Computed /\ tile.buffer # <<>> /\ tile_var = nullptr /\ tile_val # nullptr) =>
        /\ ~overrun
        /\ NonNull # {} =>
              /\ ~Outside(min_) /\ (min_.off + 1) \in NonNull
              /\ ~Outside(max_) /\ (max_.off + 1) \in NonNull
              /\ \A i \in NonNull : /\ Cell(min_) <= tile.buffer[i]
                                    /\ Cell(max_) >= tile.buffer[i]

\* C38: after compute_md on a nullable tile that is not empty, fixed-size or
\* var-size, the non-null count is the number of cells whose validity byte
\* is not 0.
C38_NonNullCount ==
    (Computed /\ tile.buffer # <<>> /\ tile_val # nullptr) =>
        non_null_count_ = Cardinality(NonNull)

\* The i-th value of a var-size tile, and the value that a pointer and a
\* size designate.
VarCell(i) ==
    SubSeq(tile_var.buffer, tile.buffer[i] + 1,
           IF i = Len(tile.buffer) THEN Len(tile_var.buffer) ELSE tile.buffer[i + 1])

Designated(p, size) == SubSeq(tile_var.buffer, p.off + 1, p.off + size)

\* Lexicographic order on byte strings: a is smaller than b at the first
\* byte they differ in, or as a proper prefix of b.
LexLess(a, b) ==
    \E k \in 1..Len(b) :
        /\ \A j \in 1..(k - 1) : j <= Len(a) /\ a[j] = b[j]
        /\ k > Len(a) \/ a[k] < b[k]

\* C39: after compute_md on a var-size tile that is not empty and not
\* nullable, min with min_size and max with max_size designate the smallest
\* and the largest value of the tile in lexicographic order, a proper prefix
\* being the smaller; of equal values the first is kept.
C39_VarMinMax ==
    (Computed /\ tile.buffer # <<>> /\ tile_var # nullptr /\ tile_val = nullptr) =>
        \E lo, hi \in 1..Len(tile.buffer) :
            /\ \A i \in 1..Len(tile.buffer) :
                  /\ ~LexLess(VarCell(i), VarCell(lo))
                  /\ ~LexLess(VarCell(hi), VarCell(i))
                  /\ i < lo => VarCell(i) # VarCell(lo)
                  /\ i < hi => VarCell(i) # VarCell(hi)
            /\ min_ = Ptr("var", tile.buffer[lo])
            /\ min_size_ = Len(VarCell(lo))
            /\ max_ = Ptr("var", tile.buffer[hi])
            /\ max_size_ = Len(VarCell(hi))

\* The owners of the mutexes that are held.
Held ==
    ({task_stack_mutex_[P] : P \in Pools} \cup {tp_index_lock_}) \ {NoOwner}

\* Thread t has come to take a mutex: that of a stack in execute, worker or
\* wait_or_work, or that of the registry in lookup_tp.
WantsMutex(t) ==
    /\ Active(t)
    /\ Top(stk[t]).fn \in {"execute", "worker", "wait"}
    /\ Top(stk[t]).pc \in {"lock", "lookup"}

\* C32: no frame holds the stack mutex of a pool or the mutex of the
\* registry while it runs a closure, or while it is in any other call: the
\* frame that holds a mutex is the top frame of its thread, with no frame of
\* a closure above it.  So a thread that comes to take a mutex, in a closure's
\* execute or wait too, never finds it held by a frame of its own.
C32_NoMutexOverClosure ==
    /\ \A o \in Held :
          /\ o[1] \in Threads
          /\ o[2] = Len(stk[o[1]])
          /\ \A k \in 1..Len(stk[o[1]]) :
                k > o[2] => stk[o[1]][k].fn # "task"
    /\ \A t \in Threads : WantsMutex(t) => \A o \in Held : o[1] # t

\* A closure that a worker or a waiter has called is in execute on the pool
\* and holds the mutex of the stack it was taken from, which another thread
\* waits for.
C32_Witness ==
    \E t \in Threads : \E k \in 1..Len(stk[t]) :
        /\ stk[t][k].fn = "task"
        /\ tasks[stk[t][k].h].runs = <<t>>
        /\ concurrency_level_["A"] > 1
        /\ TopIs(t, "execute")
        /\ task_stack_mutex_["A"] = Owner(t)
        /\ \E u \in Threads \ {t} : WantsMutex(u)


\* C10: a wait never helps or blocks for an invalid handle, and gives the
\* error "Invalid task future" at the place of every invalid handle.
C10_InvalidHandleNeverBlocks ==
    /\ \A f \in WaitFrames :
          /\ f.pc \in {"lookup", "lock", "block"} => valid(f.hs[f.i])
          /\ \A k \in 1..Len(f.sts) : ~valid(f.hs[k]) => f.sts[k] = InvalidFuture
    /\ last.op = "wait_all" =>
          \A k \in 1..Len(last.hs) :
              ~valid(last.hs[k]) => last.sts[k] = InvalidFuture

\* A wait on an invalid handle followed by a valid one has returned: the error
\* at the first place, the status of the closure at the second.
C10_Witness ==
    /\ last.op = "wait_all"
    /\ Len(last.hs) >= 2
    /\ ~valid(last.hs[1])
    /\ valid(last.hs[2])
    /\ last.sts[1] = InvalidFuture
    /\ last.sts[2] = tasks[last.hs[2]].ret
====
